---- MODULE Spec2Model ----
(***************************************************************************)
(* A model of the wallet transaction engine of src/wallet/wallet.cpp:      *)
(* the ledger index (mapWallet, mapTxSpends, nOrderPosNext), its handlers  *)
(* for block and mempool notifications, conflict and abandon propagation.  *)
(*                                                                         *)
(* Hashes are integers.  Block hash 0 is the null hash, 1 is ABANDON_HASH, *)
(* real blocks are 2 .. NumBlocks+1.  Transaction ids are 1 .. n; the      *)
(* transaction hash 0 stands for a foreign transaction the wallet does not *)
(* track.  An outpoint is <<hash, n>>.                                     *)
(***************************************************************************)
EXTENDS Integers, Sequences, FiniteSets, TLC

\* ---------------------------------------------------------------- bounds
NumBlocks == 2
MaxHeight == 2
MaxBlockTxs == 1
MaxRecipients == 2      \* recipients of a build
MaxAmount == 2          \* a recipient's amount is -1 .. MaxAmount
MaxCoins == 2           \* candidate coins of a build
MaxCoinValue == 5       \* a coin's value is 1 .. MaxCoinValue
MaxLargeAmount == 7     \* the amount of a single recipient is 0 .. MaxLargeAmount
MaxLargeCoinValue == 8  \* a coin's value next to it is 1 .. MaxLargeCoinValue
MaxTxs == 3             \* transactions of a spend index drawn at will
MaxSelectCoins == 3     \* candidates handed to SelectCoinsMinConf
MaxSelectValue == 6     \* their values are 1 .. MaxSelectValue
MaxTarget == 5          \* and the target is 1 .. MaxTarget
CAmountBits == 8        \* bits of a CAmount (a signed integer)
MaxFeeRate == 1         \* the fee oracle answers at a rate of 0 .. MaxFeeRate
NumCallers == 2         \* threads that build and commit transactions
NumOutpoints == 2       \* outputs of the wallet the callers can spend
MaxBuilds == 2          \* CreateTransaction calls of one caller
MaxKeyIterations == 2   \* iterations of the loop in a call of a caller
KeyPoolSize == 1        \* -keypool, the size TopUpKeyPool fills the pools to
NumLockThreads == 2     \* threads that take cs_main and cs_wallet
MaxLockCalls == 1       \* entry points one of them calls
MaxTimeSteps == 4       \* clock and block times are 150 .. 150 * MaxTimeSteps
MaxTimeEntries == 3     \* entries of wtxOrdered
MaxLockedCoins == 1     \* outpoints lockunspent has locked
MaxQueue == 2           \* notifications waiting in the validation interface queue

\* ------------------------------------------------------ program constants
ABANDON_HASH == 1
NullHash == 0

\* amounts and sizes, scaled down: one size unit for each input and output
MIN_CHANGE == 4
MIN_FINAL_CHANGE == MIN_CHANGE \div 2
DUST_RELAY_THRESHOLD == 1       \* GetDustThreshold(txout, ::dustRelayFee)
CHANGE_DUST_THRESHOLD == 2      \* GetDustThreshold(newTxOut, ::minRelayTxFee)
DISCARD_DUST_THRESHOLD == 2     \* GetDustThreshold(change_prototype_txout, discard_rate)
CHANGE_PROTOTYPE_SIZE == 1
MIN_RELAY_FEE_RATE == 1
maxTxFee == 8
MAX_STANDARD_TX_SIZE == 7
DEFAULT_ANCESTOR_LIMIT == 25
DEFAULT_DESCENDANT_LIMIT == 25
NO_CHAIN_LIMIT == 1000000        \* std::numeric_limits<uint64_t>::max()
bSpendZeroConfChange == TRUE
fRejectLongChains == FALSE      \* -walletrejectlongchains

VARIABLES
    utx,            \* the transactions that exist: txid -> body (fixed per run)
    mapWallet,      \* txid -> CWalletTx record, for the tracked transactions
    mapTxSpends,    \* multimap outpoint -> spender txid, in insertion order
    nOrderPosNext,  \* next insertion order
    chainActive,    \* the best chain: sequence of block hashes, height = index
    mapBlockIndex,  \* every block ever seen: hash -> [nHeight, pprev, vtx]
    mempool,        \* the node's memory pool (set of txids)
    last,           \* the last handler run: its name, arguments, result, log
    aborted,        \* an assert() of the program failed
    build,          \* the frame of the CreateTransaction call in progress
    worklist        \* the frame of the MarkConflicted / AbandonTransaction loop
                    \* that is run one iteration at a time

vars == <<utx, mapWallet, mapTxSpends, nOrderPosNext, chainActive,
          mapBlockIndex, mempool, last, aborted, build, worklist>>

\* ------------------------------------------------------------- utilities
Min(S) == CHOOSE x \in S : \A y \in S : x <= y

Max(S) == CHOOSE x \in S : \A y \in S : x >= y

Range(s) == {s[i] : i \in 1..Len(s)}

RECURSIVE SetToSeq(_)
SetToSeq(S) == IF S = {} THEN <<>> ELSE <<Min(S)>> \o SetToSeq(S \ {Min(S)})

BlockHashes == 2..(NumBlocks + 1)

Txids == DOMAIN utx

\* ------------------------------------------------ transaction universes
Out(v, m) == [nValue |-> v, mine |-> m]

Tx(vin, vout, core) == [vin |-> vin, vout |-> vout, core |-> core]

\* 1 = A, 2 = B spends A:0, 3 = C spends B:0
UniverseChain ==
    [t \in 1..3 |->
        CASE t = 1 -> Tx(<< <<0, 0>> >>, << Out(5, TRUE) >>, 1)
          [] t = 2 -> Tx(<< <<1, 0>> >>, << Out(4, TRUE) >>, 2)
          [] t = 3 -> Tx(<< <<2, 0>> >>, << Out(3, TRUE) >>, 3)]

\* 1 = A, 2 = A' double-spends A's input, 3 = B spends A:0
UniverseFork ==
    [t \in 1..3 |->
        CASE t = 1 -> Tx(<< <<0, 0>> >>, << Out(5, TRUE) >>, 1)
          [] t = 2 -> Tx(<< <<0, 0>> >>, << Out(5, TRUE) >>, 2)
          [] t = 3 -> Tx(<< <<1, 0>> >>, << Out(4, TRUE) >>, 3)]

\* 1 = A, 2 = A' double-spends A's input, 3 = B spends A:0, 4 = C spends B:0
UniverseConflict ==
    [t \in 1..4 |->
        CASE t = 1 -> Tx(<< <<0, 0>> >>, << Out(5, TRUE) >>, 1)
          [] t = 2 -> Tx(<< <<0, 0>> >>, << Out(5, TRUE) >>, 2)
          [] t = 3 -> Tx(<< <<1, 0>> >>, << Out(4, TRUE) >>, 3)
          [] t = 4 -> Tx(<< <<3, 0>> >>, << Out(3, TRUE) >>, 4)]

\* 1 = A, 2 = A' double-spends A's input, 3 = B spends A:0 and 0:1,
\* 4 = X double-spends B's second input
UniverseTwoConflicts ==
    [t \in 1..4 |->
        CASE t = 1 -> Tx(<< <<0, 0>> >>, << Out(5, TRUE) >>, 1)
          [] t = 2 -> Tx(<< <<0, 0>> >>, << Out(5, TRUE) >>, 2)
          [] t = 3 -> Tx(<< <<1, 0>>, <<0, 1>> >>, << Out(6, TRUE) >>, 3)
          [] t = 4 -> Tx(<< <<0, 1>> >>, << Out(2, TRUE) >>, 4)]

\* 1 = A pays the wallet, 2 = Z double-spends A's input and is not the wallet's
UniverseForeign ==
    [t \in 1..2 |->
        CASE t = 1 -> Tx(<< <<0, 0>> >>, << Out(5, TRUE) >>, 1)
          [] t = 2 -> Tx(<< <<0, 0>> >>, << Out(5, FALSE) >>, 2)]

\* 1 = A, 2 = A' double-spends A's input, 3 = B spends A:0,
\* 4 = C spends B:0 and A:1
UniverseDiamond ==
    [t \in 1..4 |->
        CASE t = 1 -> Tx(<< <<0, 0>> >>, << Out(3, TRUE), Out(2, TRUE) >>, 1)
          [] t = 2 -> Tx(<< <<0, 0>> >>, << Out(5, TRUE) >>, 2)
          [] t = 3 -> Tx(<< <<1, 0>> >>, << Out(3, TRUE) >>, 3)
          [] t = 4 -> Tx(<< <<3, 0>>, <<1, 1>> >>, << Out(4, TRUE) >>, 4)]

\* 1 = P pays the wallet, 2 = X spends P:0, 3 = A spends P:0, 4 = A with
\* another signature: the same transaction as 3 without the scriptSigs
UniverseEquivalent ==
    [t \in 1..4 |->
        CASE t = 1 -> Tx(<< <<0, 0>> >>, << Out(5, TRUE) >>, 1)
          [] t = 2 -> Tx(<< <<1, 0>> >>, << Out(4, TRUE) >>, 2)
          [] t = 3 -> Tx(<< <<1, 0>> >>, << Out(3, TRUE) >>, 3)
          [] t = 4 -> Tx(<< <<1, 0>> >>, << Out(3, TRUE) >>, 3)]

Universes == {UniverseChain, UniverseFork, UniverseForeign}

ConflictUniverses == {UniverseConflict, UniverseTwoConflicts}

\* ------------------------------------------------------ CMerkleTx helpers
hashUnset(wtx) == wtx.hashBlock = NullHash \/ wtx.hashBlock = ABANDON_HASH

isAbandoned(wtx) == wtx.hashBlock = ABANDON_HASH

setAbandoned(wtx) == [wtx EXCEPT !.hashBlock = ABANDON_HASH]

InMempool(wtx) == wtx.fInMempool

\* a MarkDirty that leaves the cache as it is
KeepCache(wtx) == wtx

MarkDirty(wtx) == [wtx EXCEPT !.fAvailableCreditCached = FALSE]

\* BindWallet(pwalletIn): pwallet = pwalletIn; MarkDirty()
BindWallet(wtx) == MarkDirty(wtx)

NewWalletTx ==
    [hashBlock |-> NullHash, nIndex |-> -1, nOrderPos |-> -1,
     fInMempool |-> FALSE, fFromMe |-> FALSE, mapValue |-> "",
     fAvailableCreditCached |-> FALSE, nAvailableCreditCached |-> 0]

SetMerkleBranch(wtx, hashBlock, posInBlock) ==
    [wtx EXCEPT !.hashBlock = hashBlock, !.nIndex = posInBlock]

\* chainActive.Contains / Height over a chain given as a sequence of hashes
Contains(chain, h) == h \in Range(chain)

Height(chain) == Len(chain)

GetDepthInMainChain(wtx, chain, index) ==
    IF hashUnset(wtx) THEN 0
    ELSE IF wtx.hashBlock \notin DOMAIN index THEN 0
    ELSE IF ~Contains(chain, wtx.hashBlock) THEN 0
    ELSE (IF wtx.nIndex = -1 THEN -1 ELSE 1)
            * (Height(chain) - index[wtx.hashBlock].nHeight + 1)

\* --------------------------------------------------------- the spend index
KeyLess(a, b) == a[1] < b[1] \/ (a[1] = b[1] /\ a[2] < b[2])

\* equal_range(outpoint): the spenders of an outpoint, in insertion order
RECURSIVE EqualRange(_, _)
EqualRange(spends, outpoint) ==
    IF spends = <<>> THEN <<>>
    ELSE (IF Head(spends).prevout = outpoint THEN <<Head(spends).wtxid>> ELSE <<>>)
            \o EqualRange(Tail(spends), outpoint)

\* iter = lower_bound(COutPoint(lb, 0)); while (iter != end && iter->first.hash == now)
\* the spenders visited by that loop
SpendsFrom(spends, lb, now) ==
    LET keys == {e.prevout : e \in Range(spends)}
        geq == {k \in keys : ~KeyLess(k, <<lb, 0>>)}
        first == CHOOSE k \in geq : \A k2 \in geq : ~KeyLess(k2, k)
    IN IF geq = {} THEN {}
       ELSE IF first[1] # now THEN {}
       ELSE {e.wtxid : e \in {x \in Range(spends) : x.prevout[1] = now}}

\* for (txin : tx.vin) { it = mapWallet.find(txin.prevout.hash); if found MarkDirty }
MarkInputsDirty(mw, vin) ==
    [t \in DOMAIN mw |->
        IF \E i \in 1..Len(vin) : vin[i][1] = t THEN MarkDirty(mw[t]) ELSE mw[t]]

\* ------------------------------------------------------------ the ledger
(* The handlers below are operators over a wallet state                    *)
(*   w = [mw, spends, next, log, ok]                                       *)
(* (mapWallet, mapTxSpends, nOrderPosNext, the calls made so far by the    *)
(* running handler, and whether every assert() passed) and the chain state *)
(*   env = [chain, index]   (chainActive, mapBlockIndex).                  *)

\* a conflictconfirms that loses its sign: no block ever conflicts deeper
ConflictConfirmsUnsigned(hashBlock, env) ==
    IF hashBlock \in DOMAIN env.index /\ Contains(env.chain, hashBlock)
    THEN Height(env.chain) - env.index[hashBlock].nHeight + 1
    ELSE 0

\* conflictconfirms of MarkConflicted
ConflictConfirms(hashBlock, env) ==
    IF hashBlock \in DOMAIN env.index /\ Contains(env.chain, hashBlock)
    THEN -(Height(env.chain) - env.index[hashBlock].nHeight + 1)
    ELSE 0

\* an iteration that leaves the transaction it visits in todo
MarkConflictedIterationKeepsTodo(st, hashBlock, conflictconfirms, env) ==
    [st EXCEPT !.done = @ \cup {Min(st.todo)}]

\* one iteration of the while loop of MarkConflicted over the frame
\* st = [w, todo, done]; todo is not empty
MarkConflictedIteration(st, hashBlock, conflictconfirms, env) ==
    LET w == st.w
        now == Min(st.todo)
        todo1 == st.todo \ {now}
        done1 == st.done \cup {now}
    IN IF now \notin DOMAIN w.mw
       THEN [st EXCEPT !.w = [w EXCEPT !.ok = FALSE]]
       ELSE
         LET wtx == w.mw[now]
             currentconfirm == GetDepthInMainChain(wtx, env.chain, env.index)
         IN IF conflictconfirms < currentconfirm
            THEN
              LET wtx1 == MarkDirty([wtx EXCEPT !.nIndex = -1, !.hashBlock = hashBlock])
                  mw1 == [w.mw EXCEPT ![now] = wtx1]
                  todo2 == todo1 \cup (SpendsFrom(w.spends, now, now) \ done1)
                  mw2 == MarkInputsDirty(mw1, utx[now].vin)
              IN [w |-> [w EXCEPT !.mw = mw2], todo |-> todo2, done |-> done1]
            ELSE [w |-> w, todo |-> todo1, done |-> done1]

\* the while loop: st is bound to the frame the iteration leaves
RECURSIVE MarkConflictedLoop(_, _, _, _, _, _)
MarkConflictedLoop(w, hashBlock, conflictconfirms, todo, done, env) ==
    IF todo = {} \/ ~w.ok THEN w
    ELSE
      CHOOSE r \in {MarkConflictedLoop(st.w, hashBlock, conflictconfirms,
                                       st.todo, st.done, env) :
                       st \in {MarkConflictedIteration(
                                  [w |-> w, todo |-> todo, done |-> done],
                                  hashBlock, conflictconfirms, env)}} : TRUE

\* a MarkConflicted that takes every block of the chain for deeper than any
\* record
MarkConflictedAlwaysDeeper(w, hashBlock, hashTx, env) ==
    LET conflictconfirms == ConflictConfirms(hashBlock, env)
        w1 == IF conflictconfirms >= 0 THEN w
              ELSE MarkConflictedLoop(w, hashBlock, -(MaxHeight + 2), {hashTx}, {}, env)
    IN [w1 EXCEPT !.log = Append(w.log,
            [ev |-> "MarkConflicted", hashBlock |-> hashBlock, tx |-> hashTx,
             before |-> IF hashTx \in DOMAIN w.mw
                        THEN GetDepthInMainChain(w.mw[hashTx], env.chain, env.index)
                        ELSE 0,
             pre |-> w.mw, post |-> w1.mw])]

MarkConflicted(w, hashBlock, hashTx, env) ==
    LET conflictconfirms == ConflictConfirms(hashBlock, env)
        w1 == IF conflictconfirms >= 0 THEN w
              ELSE MarkConflictedLoop(w, hashBlock, conflictconfirms, {hashTx}, {}, env)
    IN [w1 EXCEPT !.log = Append(w.log,
            [ev |-> "MarkConflicted", hashBlock |-> hashBlock, tx |-> hashTx,
             before |-> IF hashTx \in DOMAIN w.mw
                        THEN GetDepthInMainChain(w.mw[hashTx], env.chain, env.index)
                        ELSE 0,
             pre |-> w.mw, post |-> w1.mw])]

\* copyFrom of SyncMetaData: the spender with the smallest nOrderPos
RECURSIVE OldestOf(_, _, _)
OldestOf(mw, ids, best) ==
    IF ids = <<>> THEN best
    ELSE IF best = 0 \/ mw[Head(ids)].nOrderPos < mw[best].nOrderPos
         THEN OldestOf(mw, Tail(ids), Head(ids))
         ELSE OldestOf(mw, Tail(ids), best)

IsEquivalentTo(a, b) == utx[a].core = utx[b].core

\* a range that is left as it is
SyncMetaDataNoCopy(mw, ids) == mw

SyncMetaData(mw, ids) ==
    LET copyFrom == OldestOf(mw, ids, 0)
    IN [t \in DOMAIN mw |->
          IF t \in Range(ids) /\ t # copyFrom /\ IsEquivalentTo(copyFrom, t)
          THEN [mw[t] EXCEPT !.mapValue = mw[copyFrom].mapValue,
                             !.fFromMe = mw[copyFrom].fFromMe]
          ELSE mw[t]]

AddToSpendsOutpoint(w, outpoint, wtxid) ==
    LET spends1 == Append(w.spends, [prevout |-> outpoint, wtxid |-> wtxid])
    IN [w EXCEPT !.spends = spends1,
                 !.mw = SyncMetaData(w.mw, EqualRange(spends1, outpoint))]

RECURSIVE AddToSpendsLoop(_, _, _)
AddToSpendsLoop(w, vin, wtxid) ==
    IF vin = <<>> THEN w
    ELSE AddToSpendsLoop(AddToSpendsOutpoint(w, Head(vin), wtxid), Tail(vin), wtxid)

AddToSpends(w, wtxid) ==
    IF wtxid \notin DOMAIN w.mw THEN [w EXCEPT !.ok = FALSE]
    ELSE AddToSpendsLoop(w, utx[wtxid].vin, wtxid)

\* a merge that leaves the abandoned state of the record alone
MergeWalletTxKeepAbandoned(wtx, wtxIn) ==
    LET m1 == IF ~hashUnset(wtxIn) /\ wtxIn.hashBlock # wtx.hashBlock
              THEN [wtx EXCEPT !.hashBlock = wtxIn.hashBlock] ELSE wtx
        m3 == IF wtxIn.nIndex # -1 /\ wtxIn.nIndex # m1.nIndex
              THEN [m1 EXCEPT !.nIndex = wtxIn.nIndex] ELSE m1
        m4 == IF wtxIn.fFromMe /\ wtxIn.fFromMe # m3.fFromMe
              THEN [m3 EXCEPT !.fFromMe = wtxIn.fFromMe] ELSE m3
    IN m4

\* a merge in which a wtxIn without a block clears the record's block
MergeWalletTxClearsBlock(wtx, wtxIn) ==
    LET m1 == IF wtxIn.hashBlock # wtx.hashBlock
              THEN [wtx EXCEPT !.hashBlock = wtxIn.hashBlock] ELSE wtx
        m3 == IF wtxIn.nIndex # m1.nIndex
              THEN [m1 EXCEPT !.nIndex = wtxIn.nIndex] ELSE m1
        m4 == IF wtxIn.fFromMe /\ wtxIn.fFromMe # m3.fFromMe
              THEN [m3 EXCEPT !.fFromMe = wtxIn.fFromMe] ELSE m3
    IN m4

\* Merge of AddToWallet: wtxIn into the existing record wtx
MergeWalletTx(wtx, wtxIn) ==
    LET m1 == IF ~hashUnset(wtxIn) /\ wtxIn.hashBlock # wtx.hashBlock
              THEN [wtx EXCEPT !.hashBlock = wtxIn.hashBlock] ELSE wtx
        m2 == IF wtxIn.hashBlock = NullHash /\ isAbandoned(m1)
              THEN [m1 EXCEPT !.hashBlock = wtxIn.hashBlock] ELSE m1
        m3 == IF wtxIn.nIndex # -1 /\ wtxIn.nIndex # m2.nIndex
              THEN [m2 EXCEPT !.nIndex = wtxIn.nIndex] ELSE m2
        m4 == IF wtxIn.fFromMe /\ wtxIn.fFromMe # m3.fFromMe
              THEN [m3 EXCEPT !.fFromMe = wtxIn.fFromMe] ELSE m3
    IN m4

\* an upsert that takes an order position and indexes the inputs on every
\* call, not only on insertion
\* a counter that hands out its value and stays
IncOrderPosNextStays(next) ==
    [nRet |-> next, nOrderPosNext |-> next]

\* nRet = nOrderPosNext++
IncOrderPosNext(next) ==
    [nRet |-> next, nOrderPosNext |-> next + 1]

AddToWalletAlwaysIndexes(w, hash, wtxIn) ==
    LET fInsertedNew == hash \notin DOMAIN w.mw
        wtx == IF fInsertedNew THEN wtxIn ELSE MergeWalletTx(w.mw[hash], wtxIn)
        mw1 == [t \in DOMAIN w.mw \cup {hash} |->
                   IF t = hash THEN [wtx EXCEPT !.nOrderPos = w.next] ELSE w.mw[t]]
        w1 == AddToSpends([w EXCEPT !.mw = mw1, !.next = w.next + 1], hash)
    IN [w1 EXCEPT !.mw[hash] = MarkDirty(w1.mw[hash]),
                  !.log = Append(w1.log, [ev |-> "AddToWallet", tx |-> hash,
                                          fInsertedNew |-> fInsertedNew])]

AddToWallet(w, hash, wtxIn) ==
    LET fInsertedNew == hash \notin DOMAIN w.mw
        wIns == LET inc == IncOrderPosNext(w.next)
                    wtx == [wtxIn EXCEPT !.nOrderPos = inc.nRet]
                    mw1 == [t \in DOMAIN w.mw \cup {hash} |->
                               IF t = hash THEN wtx ELSE w.mw[t]]
                IN AddToSpends([w EXCEPT !.mw = mw1, !.next = inc.nOrderPosNext], hash)
        wMrg == [w EXCEPT !.mw[hash] = MergeWalletTx(w.mw[hash], wtxIn)]
        w1 == IF fInsertedNew THEN wIns ELSE wMrg
    IN [w1 EXCEPT !.mw[hash] = MarkDirty(w1.mw[hash]),
                  !.log = Append(w1.log, [ev |-> "AddToWallet", tx |-> hash,
                                          fInsertedNew |-> fInsertedNew])]

IsMine(t) == \E i \in 1..Len(utx[t].vout) : utx[t].vout[i].mine

\* GetDebit(txin, ISMINE_ALL)
GetDebitIn(mw, prevout) ==
    IF prevout[1] \in DOMAIN mw /\ prevout[2] < Len(utx[prevout[1]].vout)
         /\ utx[prevout[1]].vout[prevout[2] + 1].mine
    THEN utx[prevout[1]].vout[prevout[2] + 1].nValue
    ELSE 0

IsFromMe(mw, t) == \E i \in 1..Len(utx[t].vin) : GetDebitIn(mw, utx[t].vin[i]) > 0

\* the MarkConflicted calls of AddToWalletIfInvolvingMe, in call order
RECURSIVE OtherSpenders(_, _, _)
OtherSpenders(spends, vin, t) ==
    IF vin = <<>> THEN <<>>
    ELSE SelectSeq(EqualRange(spends, Head(vin)), LAMBDA s : s # t)
            \o OtherSpenders(spends, Tail(vin), t)

RECURSIVE MarkConflictedAll(_, _, _, _)
MarkConflictedAll(w, hashBlock, txs, env) ==
    IF txs = <<>> THEN w
    ELSE MarkConflictedAll(MarkConflicted(w, hashBlock, Head(txs), env),
                           hashBlock, Tail(txs), env)

\* the handler with its two steps in the other order: upsert, then conflicts
AddToWalletIfInvolvingMeUpsertFirst(w, t, pIndex, posInBlock, fUpdate, env) ==
    LET w0 == [w EXCEPT !.log = Append(w.log,
                    [ev |-> "AddToWalletIfInvolvingMe", tx |-> t,
                     fExisted |-> t \in DOMAIN w.mw])]
        fExisted == t \in DOMAIN w0.mw
        wtx == IF pIndex # NullHash
               THEN SetMerkleBranch(NewWalletTx, pIndex, posInBlock)
               ELSE NewWalletTx
        fAdd == ~(fExisted /\ ~fUpdate) /\ (fExisted \/ IsMine(t) \/ IsFromMe(w0.mw, t))
        w1 == IF fAdd THEN AddToWallet(w0, t, wtx) ELSE w0
        w2 == IF pIndex # NullHash
              THEN MarkConflictedAll(w1, pIndex, OtherSpenders(w1.spends, utx[t].vin, t), env)
              ELSE w1
    IN [w |-> w2, ret |-> fAdd]

\* pIndex is the block's hash, NullHash for nullptr
AddToWalletIfInvolvingMe(w, t, pIndex, posInBlock, fUpdate, env) ==
    LET w0 == [w EXCEPT !.log = Append(w.log,
                    [ev |-> "AddToWalletIfInvolvingMe", tx |-> t,
                     fExisted |-> t \in DOMAIN w.mw])]
        w1 == IF pIndex # NullHash
              THEN MarkConflictedAll(w0, pIndex, OtherSpenders(w.spends, utx[t].vin, t), env)
              ELSE w0
        fExisted == t \in DOMAIN w1.mw
        wtx == IF pIndex # NullHash
               THEN SetMerkleBranch(NewWalletTx, pIndex, posInBlock)
               ELSE NewWalletTx
    IN IF fExisted /\ ~fUpdate THEN [w |-> w1, ret |-> FALSE]
       ELSE IF fExisted \/ IsMine(t) \/ IsFromMe(w1.mw, t)
            THEN [w |-> AddToWallet(w1, t, wtx), ret |-> TRUE]
            ELSE [w |-> w1, ret |-> FALSE]

\* a notification that leaves a record it finds as it is
SyncTransactionNoUpdate(w, t, pindex, posInBlock, env) ==
    LET r == AddToWalletIfInvolvingMe(w, t, pindex, posInBlock, FALSE, env)
    IN IF ~r.ret THEN r.w
       ELSE [r.w EXCEPT !.mw = MarkInputsDirty(r.w.mw, utx[t].vin)]

SyncTransaction(w, t, pindex, posInBlock, env) ==
    LET r == AddToWalletIfInvolvingMe(w, t, pindex, posInBlock, TRUE, env)
    IN IF ~r.ret THEN r.w
       ELSE [r.w EXCEPT !.mw = MarkInputsDirty(r.w.mw, utx[t].vin)]

SetInMempool(w, t, flag) ==
    IF t \in DOMAIN w.mw THEN [w EXCEPT !.mw[t].fInMempool = flag] ELSE w

TransactionAddedToMempool(w, t, env) ==
    SetInMempool(SyncTransaction(w, t, NullHash, 0, env), t, TRUE)

TransactionRemovedFromMempool(w, t) == SetInMempool(w, t, FALSE)

RECURSIVE SyncConflicted(_, _, _)
SyncConflicted(w, vtxConflicted, env) ==
    IF vtxConflicted = <<>> THEN w
    ELSE SyncConflicted(
            TransactionRemovedFromMempool(
                SyncTransaction(w, Head(vtxConflicted), NullHash, 0, env),
                Head(vtxConflicted)),
            Tail(vtxConflicted), env)

RECURSIVE SyncBlock(_, _, _, _, _)
SyncBlock(w, vtx, pindex, i, env) ==
    IF i > Len(vtx) THEN w
    ELSE SyncBlock(
            TransactionRemovedFromMempool(
                SyncTransaction(w, vtx[i], pindex, i, env), vtx[i]),
            vtx, pindex, i + 1, env)

BlockConnected(w, vtx, pindex, vtxConflicted, env) ==
    SyncBlock(SyncConflicted(w, vtxConflicted, env), vtx, pindex, 1, env)

RECURSIVE BlockDisconnected(_, _, _)
BlockDisconnected(w, vtx, env) ==
    IF vtx = <<>> THEN w
    ELSE BlockDisconnected(SyncTransaction(w, Head(vtx), NullHash, 0, env), Tail(vtx), env)

\* one iteration of the while loop of AbandonTransaction over the frame
\* st = [w, todo, done]; todo is not empty
AbandonIteration(st, hashTx, env) ==
    LET w == st.w
        now == Min(st.todo)
        todo1 == st.todo \ {now}
        done1 == st.done \cup {now}
        failed == [st EXCEPT !.w = [w EXCEPT !.ok = FALSE]]
    IN IF now \notin DOMAIN w.mw
       THEN failed
       ELSE
         LET wtx == w.mw[now]
             currentconfirm == GetDepthInMainChain(wtx, env.chain, env.index)
         IN IF currentconfirm > 0
            THEN failed
            ELSE IF currentconfirm = 0 /\ ~isAbandoned(wtx)
            THEN
              IF InMempool(wtx)
              THEN failed
              ELSE
                LET wtx1 == MarkDirty(setAbandoned([wtx EXCEPT !.nIndex = -1]))
                    mw1 == [w.mw EXCEPT ![now] = wtx1]
                    todo2 == todo1 \cup (SpendsFrom(w.spends, hashTx, now) \ done1)
                    mw2 == MarkInputsDirty(mw1, utx[now].vin)
                IN [w |-> [w EXCEPT !.mw = mw2], todo |-> todo2, done |-> done1]
            ELSE [w |-> w, todo |-> todo1, done |-> done1]

RECURSIVE AbandonLoop(_, _, _, _, _)
AbandonLoop(w, hashTx, todo, done, env) ==
    IF todo = {} \/ ~w.ok THEN w
    ELSE
      CHOOSE r \in {AbandonLoop(st.w, hashTx, st.todo, st.done, env) :
                       st \in {AbandonIteration(
                                  [w |-> w, todo |-> todo, done |-> done],
                                  hashTx, env)}} : TRUE

\* an abandon that looks at the depth only, not at the memory pool
AbandonTransactionNoMempoolCheck(w, hashTx, env) ==
    IF hashTx \notin DOMAIN w.mw
    THEN [w |-> [w EXCEPT !.ok = FALSE], ret |-> FALSE]
    ELSE IF GetDepthInMainChain(w.mw[hashTx], env.chain, env.index) > 0
    THEN [w |-> w, ret |-> FALSE]
    ELSE [w |-> AbandonLoop(w, hashTx, {hashTx}, {}, env), ret |-> TRUE]

\* an abandon that refuses every record whose depth is not 0
AbandonTransactionRefusesConflicted(w, hashTx, env) ==
    IF hashTx \notin DOMAIN w.mw
    THEN [w |-> [w EXCEPT !.ok = FALSE], ret |-> FALSE]
    ELSE IF GetDepthInMainChain(w.mw[hashTx], env.chain, env.index) # 0
            \/ InMempool(w.mw[hashTx])
    THEN [w |-> w, ret |-> FALSE]
    ELSE [w |-> AbandonLoop(w, hashTx, {hashTx}, {}, env), ret |-> TRUE]

\* returns [w, ret]; the caller has looked hashTx up in mapWallet
AbandonTransaction(w, hashTx, env) ==
    IF hashTx \notin DOMAIN w.mw
    THEN [w |-> [w EXCEPT !.ok = FALSE], ret |-> FALSE]
    ELSE IF GetDepthInMainChain(w.mw[hashTx], env.chain, env.index) > 0
            \/ InMempool(w.mw[hashTx])
    THEN [w |-> w, ret |-> FALSE]
    ELSE [w |-> AbandonLoop(w, hashTx, {hashTx}, {}, env), ret |-> TRUE]

TransactionCanBeAbandoned(w, hashTx, env) ==
    /\ hashTx \in DOMAIN w.mw
    /\ ~isAbandoned(w.mw[hashTx])
    /\ GetDepthInMainChain(w.mw[hashTx], env.chain, env.index) <= 0
    /\ ~InMempool(w.mw[hashTx])

\* an IsSpent that counts every spender of depth 0, abandoned or not
IsSpentCountsAbandoned(w, hash, n, env) ==
    \E e \in Range(w.spends) :
        /\ e.prevout = <<hash, n>>
        /\ e.wtxid \in DOMAIN w.mw
        /\ GetDepthInMainChain(w.mw[e.wtxid], env.chain, env.index) >= 0

IsSpent(w, hash, n, env) ==
    \E e \in Range(w.spends) :
        /\ e.prevout = <<hash, n>>
        /\ e.wtxid \in DOMAIN w.mw
        /\ LET depth == GetDepthInMainChain(w.mw[e.wtxid], env.chain, env.index)
           IN depth > 0 \/ (depth = 0 /\ ~isAbandoned(w.mw[e.wtxid]))

\* CWallet::GetConflicts: the spenders of the outpoints the transaction shares
\* with another spender; an outpoint with zero or one spends is no conflict
GetConflicts(w, txid) ==
    IF txid \notin DOMAIN w.mw THEN {}
    ELSE UNION {(IF Len(EqualRange(w.spends, utx[txid].vin[i])) <= 1 THEN {}
                 ELSE Range(EqualRange(w.spends, utx[txid].vin[i]))) :
                    i \in 1..Len(utx[txid].vin)}

\* a CWalletTx::GetConflicts without result.erase(myHash)
WalletTxGetConflictsKeepSelf(w, myHash) == GetConflicts(w, myHash)

\* CWalletTx::GetConflicts
WalletTxGetConflicts(w, myHash) == GetConflicts(w, myHash) \ {myHash}

\* bSpendZeroConfChange is on and every transaction is final
IsTrusted(w, t, env) ==
    LET nDepth == GetDepthInMainChain(w.mw[t], env.chain, env.index)
    IN IF nDepth >= 1 THEN TRUE
       ELSE IF nDepth < 0 THEN FALSE
       ELSE IF ~IsFromMe(w.mw, t) THEN FALSE
       ELSE IF ~InMempool(w.mw[t]) THEN FALSE
       ELSE \A i \in 1..Len(utx[t].vin) :
               LET prevout == utx[t].vin[i]
               IN /\ prevout[1] \in DOMAIN w.mw
                  /\ utx[prevout[1]].vout[prevout[2] + 1].mine

RECURSIVE SumCredit(_, _, _, _)
SumCredit(w, t, i, env) ==
    IF i > Len(utx[t].vout) THEN 0
    ELSE (IF ~IsSpent(w, t, i - 1, env) /\ utx[t].vout[i].mine
          THEN utx[t].vout[i].nValue ELSE 0) + SumCredit(w, t, i + 1, env)

\* returns the wallet state: the call may fill the record's cache
GetAvailableCredit(w, t, fUseCache, env) ==
    IF fUseCache /\ w.mw[t].fAvailableCreditCached THEN w
    ELSE [w EXCEPT !.mw[t].nAvailableCreditCached = SumCredit(w, t, 1, env),
                   !.mw[t].fAvailableCreditCached = TRUE]

RECURSIVE GetBalanceLoop(_, _, _)
GetBalanceLoop(w, txs, env) ==
    IF txs = <<>> THEN w
    ELSE GetBalanceLoop(
            IF IsTrusted(w, Head(txs), env)
            THEN GetAvailableCredit(w, Head(txs), TRUE, env) ELSE w,
            Tail(txs), env)

GetBalance(w, env) == GetBalanceLoop(w, SetToSeq(DOMAIN w.mw), env)

\* AvailableCoins without the test of IsSpent
IsAvailableCoinIgnoresSpends(w, prevout, env) ==
    /\ prevout[1] \in DOMAIN w.mw
    /\ LET nDepth == GetDepthInMainChain(w.mw[prevout[1]], env.chain, env.index)
       IN /\ ~(nDepth = 0 /\ ~InMempool(w.mw[prevout[1]]))
          /\ IsTrusted(w, prevout[1], env)
          /\ nDepth >= 0
    /\ prevout[2] < Len(utx[prevout[1]].vout)
    /\ utx[prevout[1]].vout[prevout[2] + 1].mine

\* an output AvailableCoins(fOnlySafe = true) offers to CreateTransaction
IsAvailableCoin(w, prevout, env) ==
    /\ prevout[1] \in DOMAIN w.mw
    /\ LET nDepth == GetDepthInMainChain(w.mw[prevout[1]], env.chain, env.index)
       IN /\ ~(nDepth = 0 /\ ~InMempool(w.mw[prevout[1]]))
          /\ IsTrusted(w, prevout[1], env)
          /\ nDepth >= 0
    /\ prevout[2] < Len(utx[prevout[1]].vout)
    /\ ~IsSpent(w, prevout[1], prevout[2], env)
    /\ utx[prevout[1]].vout[prevout[2] + 1].mine

\* CWalletTx::AcceptToMemoryPool: exists is mempool.exists(hash), accepted the
\* answer of ::AcceptToMemoryPool
AcceptToMemoryPool(w, t, exists, accepted) ==
    IF exists THEN w ELSE [w EXCEPT !.mw[t].fInMempool = accepted]

\* the loop over wtxNew.tx->vin binds the record of every spent coin; the
\* coins a committed transaction spends are wallet records
CommitTransaction(w, t, wtxNew, fBroadcastTransactions, exists, accepted) ==
    LET w0 == AddToWallet(w, t, wtxNew)
        coins == {utx[t].vin[i][1] : i \in 1..Len(utx[t].vin)} \cap DOMAIN w0.mw
        w1 == [w0 EXCEPT !.mw = [p \in DOMAIN w0.mw |->
                                    IF p \in coins THEN BindWallet(w0.mw[p])
                                    ELSE w0.mw[p]]]
    IN IF fBroadcastTransactions
       THEN AcceptToMemoryPool(w1, t, exists, accepted)
       ELSE w1

\* the records ReacceptWalletTransactions sorts into mapSorted, by nOrderPos
PendingSorted(w, env) ==
    LET pending == {t \in DOMAIN w.mw :
                       /\ GetDepthInMainChain(w.mw[t], env.chain, env.index) = 0
                       /\ ~isAbandoned(w.mw[t])}
        pos == {w.mw[t].nOrderPos : t \in pending}
        at(n) == CHOOSE t \in pending : w.mw[t].nOrderPos = n
        ordered == SetToSeq(pos)
    IN [i \in 1..Len(ordered) |-> at(ordered[i])]

\* ---------------------------------------------------------- coin selection
(* A candidate coin (COutput) is a record                                  *)
(*   [id, nValue, nDepth, fFromMe, fSpendable, nChain]                     *)
(* where id names the outpoint and nChain is the length of the coin's      *)
(* unconfirmed chain in the memory pool.  A selection result is            *)
(*   [ret, setCoinsRet, nValueRet]  with setCoinsRet the set of coin ids.  *)

RECURSIVE SumCoins(_)
SumCoins(S) ==
    IF S = {} THEN 0
    ELSE LET c == CHOOSE x \in S : TRUE IN c.nValue + SumCoins(S \ {c})

\* the orders std::sort(CompareValueOnly) and std::reverse can leave vValue in
SortedDescending(S) ==
    {s \in [1..Cardinality(S) -> S] :
        /\ Range(s) = S
        /\ \A i \in 1..(Cardinality(S) - 1) : s[i].nValue >= s[i + 1].nValue}

\* the inner loop of ApproximateBestSubset from index i on; bits are the
\* indices for which insecure_rand.randbool() answers true in pass 0
RECURSIVE ApproximatePass(_, _, _, _, _, _)
ApproximatePass(vValue, nTargetValue, nPass, i, bits, st) ==
    IF i > Len(vValue) THEN st
    ELSE IF (nPass = 0 /\ i \in bits) \/ (nPass = 1 /\ i \notin st.vfIncluded)
    THEN
      LET nTotal == st.nTotal + vValue[i].nValue
      IN IF nTotal >= nTargetValue
         THEN ApproximatePass(vValue, nTargetValue, nPass, i + 1, bits,
                [st EXCEPT !.fReachedTarget = TRUE,
                           !.nBest = IF nTotal < st.nBest THEN nTotal ELSE @,
                           !.vfBest = IF nTotal < st.nBest
                                      THEN st.vfIncluded \cup {i} ELSE @])
         ELSE ApproximatePass(vValue, nTargetValue, nPass, i + 1, bits,
                [st EXCEPT !.nTotal = nTotal, !.vfIncluded = @ \cup {i}])
    ELSE ApproximatePass(vValue, nTargetValue, nPass, i + 1, bits, st)

\* a repetition whose random bits are all false: pass 1 alone
ApproximateRepNoRandom(vValue, nTargetValue, bits, best) ==
    LET st0 == [nTotal |-> 0, vfIncluded |-> {}, fReachedTarget |-> FALSE,
                nBest |-> best.nBest, vfBest |-> best.vfBest]
        st2 == ApproximatePass(vValue, nTargetValue, 1, 1, {}, st0)
    IN [vfBest |-> st2.vfBest, nBest |-> st2.nBest]

\* one repetition (nRep) of ApproximateBestSubset, from the best so far
ApproximateRep(vValue, nTargetValue, bits, best) ==
    LET st0 == [nTotal |-> 0, vfIncluded |-> {}, fReachedTarget |-> FALSE,
                nBest |-> best.nBest, vfBest |-> best.vfBest]
        st1 == ApproximatePass(vValue, nTargetValue, 0, 1, bits, st0)
        st2 == IF st1.fReachedTarget THEN st1
               ELSE ApproximatePass(vValue, nTargetValue, 1, 1, bits, st1)
    IN [vfBest |-> st2.vfBest, nBest |-> st2.nBest]

\* The results [vfBest, nBest] ApproximateBestSubset can return.  The best of
\* the repetitions is the best of one of them, and the repetitions may all
\* draw the same bits, so the results are those of one repetition.
ApproximateBestSubset(vValue, nTotalLower, nTargetValue) ==
    LET best0 == [vfBest |-> 1..Len(vValue), nBest |-> nTotalLower]
    IN IF nTotalLower = nTargetValue THEN {best0}
       ELSE {ApproximateRep(vValue, nTargetValue, bits, best0) :
                bits \in SUBSET (1..Len(vValue))}

\* a pool that lets every chain through
TransactionWithinAnyLimit(coin, nMaxAncestors) == TRUE

\* mempool.TransactionWithinChainLimit(hash, nMaxAncestors): a confirmed
\* transaction is not in the pool
TransactionWithinChainLimit(coin, nMaxAncestors) ==
    coin.nDepth > 0 \/ coin.nChain < nMaxAncestors

\* a selector that passes over a coin of the target's value
NoExactMatch(eligible, nTargetValue) == {}

\* the coins the loop returns at once when it meets them:
\* coin.txout.nValue == nTargetValue
ExactMatch(eligible, nTargetValue) == {c \in eligible : c.nValue = nTargetValue}

\* a loop that keeps whichever larger coin it meets
AnyLarger(larger) == larger

\* the coins the loop can leave in coinLowestLarger: the shuffle decides
\* which of the larger coins of the lowest value it meets first
LowestLarger(larger) == {c \in larger : \A d \in larger : c.nValue <= d.nValue}

Selected(ret, coins) ==
    [ret |-> ret, setCoinsRet |-> {c.id : c \in coins}, nValueRet |-> SumCoins(coins)]

\* a choice by the excess over the target alone: the larger coin when it is
\* no further from the target than the subset
CloserOfTwo(coinLowestLarger, vValue, r, nTargetValue) ==
    IF coinLowestLarger # {} /\ \A c \in coinLowestLarger : c.nValue <= r.nBest
    THEN {Selected(TRUE, {c}) : c \in coinLowestLarger}
    ELSE {Selected(TRUE, {vValue[i] : i \in r.vfBest})}

\* the choice between coinLowestLarger and the subset [vfBest, nBest] the
\* approximation found
LargerOrSubset(coinLowestLarger, vValue, r, nTargetValue) ==
    IF coinLowestLarger # {}
         /\ \/ (r.nBest # nTargetValue /\ r.nBest < nTargetValue + MIN_CHANGE)
            \/ \A c \in coinLowestLarger : c.nValue <= r.nBest
    THEN {Selected(TRUE, {c}) : c \in coinLowestLarger}
    ELSE {Selected(TRUE, {vValue[i] : i \in r.vfBest})}

\* the results SelectCoinsMinConf can return, over the shuffle and the bits
SelectCoinsMinConf(nTargetValue, nConfMine, nConfTheirs, nMaxAncestors, vCoins) ==
    LET eligible == {c \in Range(vCoins) :
                        /\ c.fSpendable
                        /\ c.nDepth >= (IF c.fFromMe THEN nConfMine ELSE nConfTheirs)
                        /\ TransactionWithinChainLimit(c, nMaxAncestors)}
        exact == ExactMatch(eligible, nTargetValue)
        lower == {c \in eligible : c.nValue < nTargetValue + MIN_CHANGE}
        larger == eligible \ lower
        coinLowestLarger == LowestLarger(larger)
        nTotalLower == SumCoins(lower)
        Choice(vValue, r) == LargerOrSubset(coinLowestLarger, vValue, r, nTargetValue)
        Second(vValue, r) ==
            IF r.nBest # nTargetValue /\ nTotalLower >= nTargetValue + MIN_CHANGE
            THEN ApproximateBestSubset(vValue, nTotalLower, nTargetValue + MIN_CHANGE)
            ELSE {r}
    IN IF exact # {} THEN {Selected(TRUE, {c}) : c \in exact}
       ELSE IF nTotalLower = nTargetValue THEN {Selected(TRUE, lower)}
       ELSE IF nTotalLower < nTargetValue
            THEN IF coinLowestLarger = {} THEN {Selected(FALSE, {})}
                 ELSE {Selected(TRUE, {c}) : c \in coinLowestLarger}
       ELSE UNION {UNION {UNION {Choice(vValue, r2) : r2 \in Second(vValue, r1)} :
                             r1 \in ApproximateBestSubset(vValue, nTotalLower, nTargetValue)} :
                      vValue \in SortedDescending(lower)}

\* the tiers SelectCoins tries in turn: <<nConfMine, nConfTheirs, nMaxAncestors>>
SelectionTiers ==
    LET nMaxChainLength == Min({DEFAULT_ANCESTOR_LIMIT, DEFAULT_DESCENDANT_LIMIT})
        zeroconf == <<<<0, 1, 2>>, <<0, 1, Min({4, nMaxChainLength \div 3})>>,
                      <<0, 1, nMaxChainLength \div 2>>, <<0, 1, nMaxChainLength>>>>
    IN <<<<1, 6, 0>>, <<1, 1, 0>>>>
          \o (IF bSpendZeroConfChange THEN zeroconf ELSE <<>>)
          \o (IF bSpendZeroConfChange /\ ~fRejectLongChains
              THEN <<<<0, 1, NO_CHAIN_LIMIT>>>> ELSE <<>>)

\* the chain of || in SelectCoins: the results of the first tier that succeeds
RECURSIVE SelectCoinsTiers(_, _, _)
SelectCoinsTiers(nTargetValue, vCoins, tiers) ==
    IF tiers = <<>> THEN {Selected(FALSE, {})}
    ELSE LET t == Head(tiers)
             res == SelectCoinsMinConf(nTargetValue, t[1], t[2], t[3], vCoins)
         IN IF \E r \in res : r.ret THEN res
            ELSE SelectCoinsTiers(nTargetValue, vCoins, Tail(tiers))

\* coinControl = [setSelected, fAllowOtherInputs]; nCoinType is ALL_COINS, the
\* default argument of the call CreateTransaction makes.  A preset outpoint is
\* looked up among the candidates: one that is not there is not in mapWallet.
SelectCoins(vAvailableCoins, nTargetValue, setCoinsRet, nValueRet, coinControl) ==
    IF coinControl.setSelected # {} /\ ~coinControl.fAllowOtherInputs
    THEN
      LET spendable == {c \in Range(vAvailableCoins) : c.fSpendable}
          nValue == nValueRet + SumCoins(spendable)
      IN {[ret |-> nValue >= nTargetValue,
           setCoinsRet |-> setCoinsRet \cup {c.id : c \in spendable},
           nValueRet |-> nValue]}
    ELSE
      LET known == {c \in Range(vAvailableCoins) : c.id \in coinControl.setSelected}
          nValueFromPresetInputs == SumCoins(known)
          vCoins == SelectSeq(vAvailableCoins, LAMBDA c : c \notin known)
      IN IF \E id \in coinControl.setSelected : \A c \in known : c.id # id
         THEN {[ret |-> FALSE, setCoinsRet |-> setCoinsRet, nValueRet |-> nValueRet]}
         ELSE IF nTargetValue <= nValueFromPresetInputs
         THEN {[ret |-> TRUE, setCoinsRet |-> setCoinsRet \cup {c.id : c \in known},
                nValueRet |-> nValueRet + nValueFromPresetInputs]}
         ELSE {[ret |-> r.ret,
                setCoinsRet |-> r.setCoinsRet \cup {c.id : c \in known},
                nValueRet |-> r.nValueRet + nValueFromPresetInputs] :
                   r \in SelectCoinsTiers(nTargetValue - nValueFromPresetInputs,
                                          vCoins, SelectionTiers)}

\* the coin control test of AvailableCoins on the wallet's spendable outputs
AvailableCoins(coins, coinControl) ==
    SelectSeq(coins, LAMBDA c :
        ~(coinControl.setSelected # {} /\ ~coinControl.fAllowOtherInputs
            /\ c.id \notin coinControl.setSelected))

\* ------------------------------------------------------- CreateTransaction
(* The frame of one CreateTransaction call is a record f.  Its arguments:  *)
(*   vecSend            sequence of [nAmount, fSubtractFeeFromAmount]      *)
(*   nChangePosRequest  the nChangePosInOut the caller passed              *)
(*   coin_control       [setSelected, fAllowOtherInputs]                   *)
(*   nCoinType          "ALL_COINS" or "ONLY_DENOMINATED"                  *)
(*   coins              the outputs AvailableCoins finds in the wallet     *)
(*   feeRate            the fee rate the estimator answers with            *)
(* its locals keep their names.  An output of txNew is [nValue, dest] with *)
(* dest the index of the recipient in vecSend, 0 for the change output.    *)
(* f.pc is "begin", "loop" (at the head of while (true)), "finish" (after  *)
(* the loop), "done" (returned f.ret) or "crashed".                        *)

IsDust(nValue, nDustThreshold) == nValue < nDustThreshold

\* GetVirtualTransactionSize(txNew), one unit for each input and output
GetVirtualTransactionSize(setCoins, vout) == Cardinality(setCoins) + Len(vout)

\* minRelayTxFee.GetFee(nBytes)
GetRelayFee(nBytes) == MIN_RELAY_FEE_RATE * nBytes

\* GetMinimumFee: the answer of the fee oracle at its rate, not above maxTxFee
GetMinimumFee(nBytes, feeRate) == Min({maxTxFee, feeRate * nBytes})

RECURSIVE SumOut(_)
SumOut(vout) == IF vout = <<>> THEN 0 ELSE Head(vout).nValue + SumOut(Tail(vout))

\* txNew.vout.insert(txNew.vout.begin() + pos, txout)
InsertAt(vout, pos, txout) ==
    SubSeq(vout, 1, pos) \o <<txout>> \o SubSeq(vout, pos + 1, Len(vout))

Fail(f, reason) == [f EXCEPT !.pc = "done", !.ret = FALSE, !.strFailReason = reason]

NewBuild(vecSend, nChangePosRequest, coins, coin_control, nCoinType, feeRate) ==
    [pc |-> "begin", ret |-> FALSE, strFailReason |-> "",
     vecSend |-> vecSend, nChangePosRequest |-> nChangePosRequest,
     coins |-> coins, coin_control |-> coin_control, nCoinType |-> nCoinType,
     feeRate |-> feeRate,
     nValue |-> 0, nSubtractFeeFromAmount |-> 0, vAvailableCoins |-> <<>>,
     fKeyReserved |-> FALSE, nFeeRet |-> 0, pick_new_inputs |-> TRUE,
     nValueIn |-> 0, setCoins |-> {}, vout |-> <<>>, nChangePosInOut |-> nChangePosRequest,
     nValueToSelect |-> 0, nBytes |-> 0, nFeeNeeded |-> 0]

\* the largest CAmount
MaxCAmount == 2 ^ (CAmountBits - 1) - 1

\* the value a CAmount holds after an addition of mathematical result x
WrapCAmount(x) == ((x + MaxCAmount + 1) % (2 ^ CAmountBits)) - (MaxCAmount + 1)

(* The loop over vecSend at the top of CreateTransaction:                  *)
(* acc = [nValue, n, bad, fTest].  nValue += recipient.nAmount overflows a *)
(* signed integer when the sum passes MaxCAmount, which is undefined: the  *)
(* sum wraps, and the test nValue < 0, true only after an overflow, is one *)
(* a build may keep (fTest) or delete.                                     *)
RECURSIVE SumRecipients(_, _)
SumRecipients(vecSend, acc) ==
    IF vecSend = <<>> \/ acc.bad THEN acc
    ELSE IF (acc.fTest /\ acc.nValue < 0) \/ Head(vecSend).nAmount < 0
         THEN [acc EXCEPT !.bad = TRUE]
         ELSE SumRecipients(Tail(vecSend),
                [acc EXCEPT !.nValue = WrapCAmount(@ + Head(vecSend).nAmount),
                            !.n = IF Head(vecSend).fSubtractFeeFromAmount THEN @ + 1 ELSE @])

\* CreateTransaction up to the head of the loop; fKeyPool tells whether the
\* key pool can hand out a key, fTest whether the build tests nValue < 0
CreateTransactionBegin(f, fKeyPool, fTest) ==
    LET acc == SumRecipients(f.vecSend,
                   [nValue |-> 0, n |-> 0, bad |-> FALSE, fTest |-> fTest])
    IN IF acc.bad THEN Fail(f, "Transaction amounts must not be negative")
       ELSE IF f.vecSend = <<>>
       THEN Fail([f EXCEPT !.nValue = acc.nValue],
                 "Transaction must have at least one recipient")
       ELSE
         LET f1 == [f EXCEPT !.nValue = acc.nValue,
                             !.nSubtractFeeFromAmount = acc.n,
                             !.vAvailableCoins = AvailableCoins(f.coins, f.coin_control)]
         IN IF ~fKeyPool
            THEN Fail(f1, "Keypool ran out, please call keypoolrefill first")
            ELSE [f1 EXCEPT !.fKeyReserved = TRUE, !.nFeeRet = 0,
                            !.pick_new_inputs = TRUE, !.nValueIn = 0, !.pc = "loop"]

\* "vouts to the payees": acc = [vout, fFirst, strFailReason]
RECURSIVE PayeeOutputs(_, _, _, _, _)
PayeeOutputs(vecSend, i, nFeeRet, nSubtractFeeFromAmount, acc) ==
    IF i > Len(vecSend) \/ acc.strFailReason # "" THEN acc
    ELSE
      LET recipient == vecSend[i]
          fSub == recipient.fSubtractFeeFromAmount
          v1 == IF fSub THEN recipient.nAmount - (nFeeRet \div nSubtractFeeFromAmount)
                ELSE recipient.nAmount
          v2 == IF fSub /\ acc.fFirst THEN v1 - (nFeeRet % nSubtractFeeFromAmount)
                ELSE v1
      IN IF IsDust(v2, DUST_RELAY_THRESHOLD)
         THEN [acc EXCEPT !.strFailReason =
                  IF fSub /\ nFeeRet > 0
                  THEN IF v2 < 0
                       THEN "The transaction amount is too small to pay the fee"
                       ELSE "The transaction amount is too small to send after the fee has been deducted"
                  ELSE "Transaction amount too small"]
         ELSE PayeeOutputs(vecSend, i + 1, nFeeRet, nSubtractFeeFromAmount,
                [acc EXCEPT !.vout = Append(@, [nValue |-> v2, dest |-> i]),
                            !.fFirst = @ /\ ~fSub])

\* the head of an iteration and the payees' outputs
StartIteration(f) ==
    LET nValueToSelect == IF f.nSubtractFeeFromAmount = 0
                          THEN f.nValue + f.nFeeRet ELSE f.nValue
        acc == PayeeOutputs(f.vecSend, 1, f.nFeeRet, f.nSubtractFeeFromAmount,
                            [vout |-> <<>>, fFirst |-> TRUE, strFailReason |-> ""])
        f1 == [f EXCEPT !.nChangePosInOut = f.nChangePosRequest,
                        !.vout = acc.vout, !.nValueToSelect = nValueToSelect]
    IN IF acc.strFailReason # "" THEN Fail(f1, acc.strFailReason) ELSE f1

\* "Choose coins to use": sel is the result SelectCoins returns
ChooseCoins(f, sel) ==
    IF f.pc # "loop" \/ ~f.pick_new_inputs THEN f
    ELSE LET f1 == [f EXCEPT !.nValueIn = sel.nValueRet, !.setCoins = sel.setCoinsRet]
         IN IF sel.ret THEN f1 ELSE Fail(f1, "Insufficient funds")

FirstSubtracting(vecSend) ==
    Min({i \in 1..Len(vecSend) : vecSend[i].fSubtractFeeFromAmount})

\* a change step that makes the change output whatever its value
FillChangeKeepsDust(f, nRand, fKeyPool) ==
    IF f.pc # "loop" THEN f
    ELSE
      LET nChange == f.nValueIn - f.nValueToSelect
          pos == IF f.nChangePosInOut = -1 THEN nRand ELSE Min({f.nChangePosInOut, Len(f.vout)})
      IN IF nChange <= 0 THEN [f EXCEPT !.fKeyReserved = FALSE]
         ELSE [f EXCEPT !.fKeyReserved = TRUE, !.nChangePosInOut = pos,
                        !.vout = InsertAt(@, pos, [nValue |-> nChange, dest |-> 0])]

\* the change output: nRand is the answer of GetRandInt(txNew.vout.size() + 1)
FillChange(f, nRand, fKeyPool) ==
    IF f.pc # "loop" THEN f
    ELSE
      LET nChange == f.nValueIn - f.nValueToSelect
      IN IF nChange <= 0 THEN [f EXCEPT !.fKeyReserved = FALSE]
         ELSE IF f.nCoinType = "ONLY_DENOMINATED"
         THEN [f EXCEPT !.nFeeRet = @ + nChange]
         ELSE IF ~f.fKeyReserved /\ ~fKeyPool
         THEN Fail(f, "Keypool ran out, please call keypoolrefill first")
         ELSE
           LET f1 == [f EXCEPT !.fKeyReserved = TRUE]
               fRaise == f.nSubtractFeeFromAmount > 0 /\ IsDust(nChange, CHANGE_DUST_THRESHOLD)
               nDust == CHANGE_DUST_THRESHOLD - nChange
               newTxOut == IF fRaise THEN nChange + nDust ELSE nChange
               i == FirstSubtracting(f.vecSend)
               f2 == IF fRaise THEN [f1 EXCEPT !.vout[i].nValue = @ - nDust] ELSE f1
           IN IF fRaise /\ IsDust(f2.vout[i].nValue, CHANGE_DUST_THRESHOLD)
              THEN Fail(f2, "The transaction amount is too small to send after the fee has been deducted")
              ELSE IF IsDust(newTxOut, CHANGE_DUST_THRESHOLD)
              THEN [f2 EXCEPT !.nChangePosInOut = -1, !.nFeeRet = @ + nChange,
                              !.fKeyReserved = FALSE]
              ELSE IF f2.nChangePosInOut # -1
                        /\ (f2.nChangePosInOut < 0 \/ f2.nChangePosInOut > Len(f2.vout))
              THEN Fail(f2, "Change index out of range")
              ELSE
                LET pos == IF f2.nChangePosInOut = -1 THEN nRand ELSE f2.nChangePosInOut
                IN [f2 EXCEPT !.nChangePosInOut = pos,
                              !.vout = InsertAt(@, pos, [nValue |-> newTxOut, dest |-> 0])]

\* change_position = txNew.vout.begin() + nChangePosInOut points into txNew.vout
InVout(f) == 0 <= f.nChangePosInOut /\ f.nChangePosInOut < Len(f.vout)

\* a fee step that takes the fee of the pass for enough, whatever it is
SettleFeeNoFeeCheck(f, fSigned, ub) ==
    IF f.pc # "loop" THEN f
    ELSE IF ~fSigned THEN Fail(f, "Signing transaction failed")
    ELSE [f EXCEPT !.nBytes = GetVirtualTransactionSize(f.setCoins, f.vout),
                   !.pc = "finish"]

(* From "Fill vin" to the end of the loop body.  fSigned is the answer of   *)
(* DummySignTx.  When change_position points outside txNew.vout the read    *)
(* and the write through it are undefined: ub is what the build makes of    *)
(* them, "high" (the read finds a large value and the write lands outside   *)
(* the outputs), "low" (the read finds a small value) or "crash".           *)
SettleFee(f, fSigned, ub) ==
    IF f.pc # "loop" THEN f
    ELSE IF ~fSigned THEN Fail(f, "Signing transaction failed")
    ELSE
      LET nBytes == GetVirtualTransactionSize(f.setCoins, f.vout)
          nFeeNeeded == GetMinimumFee(nBytes, f.feeRate)
          f1 == [f EXCEPT !.nBytes = nBytes, !.nFeeNeeded = nFeeNeeded]
          tx_size_with_change == nBytes + CHANGE_PROTOTYPE_SIZE + 2
          fee_needed_with_change == GetMinimumFee(tx_size_with_change, f.feeRate)
          minimum_value_for_change == DISCARD_DUST_THRESHOLD
          fPosition == f.nChangePosInOut # -1 /\ f.nSubtractFeeFromAmount = 0
          extraFeePaid == f.nFeeRet - nFeeNeeded
          additionalFeeNeeded == nFeeNeeded - f.nFeeRet
          pos == f.nChangePosInOut + 1
      IN IF nFeeNeeded < GetRelayFee(nBytes)
         THEN Fail(f1, "Transaction too large for fee policy")
         ELSE IF f.nFeeRet >= nFeeNeeded
         THEN
           IF f.nChangePosInOut = -1 /\ f.nSubtractFeeFromAmount = 0 /\ f.pick_new_inputs
                /\ f.nFeeRet >= fee_needed_with_change + minimum_value_for_change
           THEN [f1 EXCEPT !.pick_new_inputs = FALSE, !.nFeeRet = fee_needed_with_change]
           ELSE IF f.nFeeRet > nFeeNeeded /\ fPosition
           THEN IF InVout(f)
                THEN [f1 EXCEPT !.vout[pos].nValue = @ + extraFeePaid,
                                !.nFeeRet = @ - extraFeePaid, !.pc = "finish"]
                ELSE IF ub = "crash" THEN [f1 EXCEPT !.pc = "crashed"]
                ELSE [f1 EXCEPT !.nFeeRet = @ - extraFeePaid, !.pc = "finish"]
           ELSE [f1 EXCEPT !.pc = "finish"]
         ELSE IF ~f.pick_new_inputs
         THEN Fail(f1, "Transaction fee and change calculation failed")
         ELSE
           LET fNext == [f1 EXCEPT !.pick_new_inputs =
                                       IF f.nSubtractFeeFromAmount > 0 THEN FALSE ELSE @,
                                   !.nFeeRet = nFeeNeeded]
           IN IF ~fPosition THEN fNext
              ELSE IF InVout(f)
              THEN IF f.vout[pos].nValue >= MIN_FINAL_CHANGE + additionalFeeNeeded
                   THEN [f1 EXCEPT !.vout[pos].nValue = @ - additionalFeeNeeded,
                                   !.nFeeRet = @ + additionalFeeNeeded, !.pc = "finish"]
                   ELSE fNext
              ELSE IF ub = "crash" THEN [f1 EXCEPT !.pc = "crashed"]
              ELSE IF ub = "high"
              THEN [f1 EXCEPT !.nFeeRet = @ + additionalFeeNeeded, !.pc = "finish"]
              ELSE fNext

\* one pass through the body of while (true)
CreateTransactionLoop(f, sel, nRand, fKeyPool, fSigned, ub) ==
    SettleFee(FillChange(ChooseCoins(StartIteration(f), sel), nRand, fKeyPool), fSigned, ub)

\* after the loop; fSigned is the answer of ProduceSignature when sign is set,
\* fChainOk that of mempool.CalculateMemPoolAncestors
CreateTransactionFinish(f, sign, fSigned, fChainOk) ==
    LET f1 == IF f.nChangePosInOut = -1 THEN [f EXCEPT !.fKeyReserved = FALSE] ELSE f
    IN IF sign /\ ~fSigned THEN Fail(f1, "Signing transaction failed")
       ELSE IF GetVirtualTransactionSize(f1.setCoins, f1.vout) >= MAX_STANDARD_TX_SIZE
       THEN Fail(f1, "Transaction too large")
       ELSE IF fRejectLongChains /\ ~fChainOk
       THEN Fail(f1, "Transaction has too long of a mempool chain")
       ELSE [f1 EXCEPT !.pc = "done", !.ret = TRUE]

\* ------------------------------------------------- the node around the wallet
(* The chain and the memory pool are kept by the node.  A block extends    *)
(* the best chain only with transactions that spend outputs that exist and *)
(* are unspent on that chain; the memory pool accepts a transaction only   *)
(* if it is valid on top of the chain and the pool.                        *)

RECURSIVE ChainTxs(_, _)
ChainTxs(chain, index) ==
    IF chain = <<>> THEN {}
    ELSE Range(index[Head(chain)].vtx) \cup ChainTxs(Tail(chain), index)

Inputs(t) == Range(utx[t].vin)

\* t can follow the transactions of `have`: no double spend, parents present
ValidOnTop(t, have) ==
    /\ t \notin have
    /\ \A h \in have : Inputs(h) \cap Inputs(t) = {}
    /\ \A o \in Inputs(t) : o[1] = 0 \/ (o[1] \in have /\ o[2] < Len(utx[o[1]].vout))

RECURSIVE ValidBlock(_, _)
ValidBlock(vtx, have) ==
    IF vtx = <<>> THEN TRUE
    ELSE ValidOnTop(Head(vtx), have) /\ ValidBlock(Tail(vtx), have \cup {Head(vtx)})

BlockContents == UNION {[1..n -> Txids] : n \in 0..MaxBlockTxs}

RECURSIVE Descendants(_, _)
Descendants(S, pool) ==
    LET more == {t \in pool \ S : \E o \in Inputs(t) : o[1] \in S}
    IN IF more = {} THEN S ELSE Descendants(S \cup more, pool)

\* the pool transactions a block with these transactions evicts as conflicted
ConflictedBy(vtx, pool) ==
    LET direct == {m \in pool \ Range(vtx) :
                      \E t \in Range(vtx) : Inputs(m) \cap Inputs(t) # {}}
    IN Descendants(direct, pool \ Range(vtx))

Tip == IF chainActive = <<>> THEN NullHash ELSE chainActive[Len(chainActive)]

W == [mw |-> mapWallet, spends |-> mapTxSpends, next |-> nOrderPosNext,
      log |-> <<>>, ok |-> TRUE]

Env == [chain |-> chainActive, index |-> mapBlockIndex]

NoPre == <<>>

Install(w, op, tx, ret, pre) ==
    /\ mapWallet' = w.mw
    /\ mapTxSpends' = w.spends
    /\ nOrderPosNext' = w.next
    /\ aborted' = ~w.ok
    /\ last' = [op |-> op, tx |-> tx, ret |-> ret, log |-> w.log, pre |-> pre]
    /\ build' = build
    /\ worklist' = worklist

\* ------------------------------------------------------------------ actions
RECURSIVE AddedAll(_, _, _)
AddedAll(w, txs, env) ==
    IF txs = <<>> THEN w
    ELSE AddedAll(TransactionAddedToMempool(w, Head(txs), env), Tail(txs), env)

RECURSIVE RemovedAll(_, _)
RemovedAll(w, txs) ==
    IF txs = <<>> THEN w
    ELSE RemovedAll(TransactionRemovedFromMempool(w, Head(txs)), Tail(txs))

\* a transaction enters the memory pool from the network
NotifyTransactionAdded(t) ==
    /\ ~aborted
    /\ ValidOnTop(t, ChainTxs(chainActive, mapBlockIndex) \cup mempool)
    /\ mempool' = mempool \cup {t}
    /\ Install(TransactionAddedToMempool(W, t, Env), "TransactionAddedToMempool", t, TRUE, NoPre)
    /\ UNCHANGED <<utx, chainActive, mapBlockIndex>>

\* a transaction leaves the memory pool (expiry, size limit, replacement), with
\* its descendants
NotifyTransactionRemoved(t) ==
    /\ ~aborted
    /\ t \in mempool
    /\ LET gone == Descendants({t}, mempool)
       IN /\ mempool' = mempool \ gone
          /\ Install(RemovedAll(W, SetToSeq(gone)), "TransactionRemovedFromMempool", t, TRUE, NoPre)
    /\ UNCHANGED <<utx, chainActive, mapBlockIndex>>

ConnectBlock(b, vtx) ==
    LET chain1 == Append(chainActive, b)
        index1 == [h \in DOMAIN mapBlockIndex \cup {b} |->
                      IF h = b THEN [nHeight |-> Len(chain1), pprev |-> Tip, vtx |-> vtx]
                      ELSE mapBlockIndex[h]]
        vtxConflicted == SetToSeq(ConflictedBy(vtx, mempool))
        env1 == [chain |-> chain1, index |-> index1]
    IN /\ chainActive' = chain1
       /\ mapBlockIndex' = index1
       /\ mempool' = (mempool \ Range(vtx)) \ ConflictedBy(vtx, mempool)
       /\ Install(BlockConnected(W, vtx, b, vtxConflicted, env1), "BlockConnected", b, TRUE, NoPre)

\* a new block extends the best chain
NotifyBlockConnected ==
    /\ ~aborted
    /\ Len(chainActive) < MaxHeight
    /\ BlockHashes \ DOMAIN mapBlockIndex # {}
    /\ \E vtx \in BlockContents :
          /\ ValidBlock(vtx, ChainTxs(chainActive, mapBlockIndex))
          /\ ConnectBlock(Min(BlockHashes \ DOMAIN mapBlockIndex), vtx)
    /\ UNCHANGED utx

\* a block disconnected earlier is connected again
NotifyBlockReconnected ==
    /\ ~aborted
    /\ Len(chainActive) < MaxHeight
    /\ \E b \in DOMAIN mapBlockIndex :
          /\ ~Contains(chainActive, b)
          /\ mapBlockIndex[b].pprev = Tip
          /\ ConnectBlock(b, mapBlockIndex[b].vtx)
    /\ UNCHANGED utx

\* the tip is disconnected; its transactions go back to the memory pool
\* (readd), or they and their descendants leave it
NotifyBlockDisconnected ==
    /\ ~aborted
    /\ chainActive # <<>>
    /\ LET vtx == mapBlockIndex[Tip].vtx
           chain1 == SubSeq(chainActive, 1, Len(chainActive) - 1)
           env1 == [chain |-> chain1, index |-> mapBlockIndex]
           w1 == BlockDisconnected(W, vtx, env1)
       IN /\ chainActive' = chain1
          /\ \E readd \in BOOLEAN :
                IF readd
                THEN /\ mempool' = mempool \cup Range(vtx)
                     /\ Install(AddedAll(w1, vtx, env1), "BlockDisconnected", Tip, TRUE, NoPre)
                ELSE LET gone == Descendants(Range(vtx), mempool) \ Range(vtx)
                     IN /\ mempool' = mempool \ gone
                        /\ Install(RemovedAll(w1, SetToSeq(gone)), "BlockDisconnected", Tip, FALSE, NoPre)
    /\ UNCHANGED <<utx, mapBlockIndex>>

\* abandontransaction: the caller has found the record in mapWallet
CallAbandonTransaction(t) ==
    /\ ~aborted
    /\ t \in DOMAIN mapWallet
    /\ LET r == AbandonTransaction(W, t, Env)
       IN Install(r.w, "AbandonTransaction", t, r.ret,
                  [mw |-> mapWallet, spends |-> mapTxSpends, next |-> nOrderPosNext,
                   can |-> TransactionCanBeAbandoned(W, t, Env),
                   depth |-> GetDepthInMainChain(mapWallet[t], chainActive, mapBlockIndex)])
    /\ UNCHANGED <<utx, chainActive, mapBlockIndex, mempool>>

\* CommitTransaction of a transaction CreateTransaction built from available coins
CallCommitTransaction(t) ==
    /\ ~aborted
    /\ t \notin DOMAIN mapWallet
    /\ utx[t].vin # <<>>
    /\ \A o \in Inputs(t) : IsAvailableCoin(W, o, Env)
    /\ \E fBroadcastTransactions \in BOOLEAN :
          LET exists == t \in mempool
              accepted == ValidOnTop(t, ChainTxs(chainActive, mapBlockIndex) \cup mempool)
              wtxNew == [NewWalletTx EXCEPT !.fFromMe = TRUE, !.mapValue = "user"]
              w1 == CommitTransaction(W, t, wtxNew, fBroadcastTransactions, exists, accepted)
              entered == fBroadcastTransactions /\ ~exists /\ accepted
          IN /\ mempool' = IF entered THEN mempool \cup {t} ELSE mempool
             /\ Install(IF entered THEN TransactionAddedToMempool(w1, t, Env) ELSE w1,
                        "CommitTransaction", t, entered, NoPre)
    /\ UNCHANGED <<utx, chainActive, mapBlockIndex>>

\* ReacceptWalletTransactions with fBroadcastTransactions set: st = [w, pool]
RECURSIVE ReacceptLoop(_, _, _)
ReacceptLoop(st, txs, env) ==
    IF txs = <<>> THEN st
    ELSE
      LET t == Head(txs)
          exists == t \in st.pool
          accepted == ValidOnTop(t, ChainTxs(env.chain, env.index) \cup st.pool)
          w1 == AcceptToMemoryPool(st.w, t, exists, accepted)
          entered == ~exists /\ accepted
      IN ReacceptLoop(
            [w |-> IF entered THEN TransactionAddedToMempool(w1, t, env) ELSE w1,
             pool |-> IF entered THEN st.pool \cup {t} ELSE st.pool],
            Tail(txs), env)

CallReacceptWalletTransactions ==
    /\ ~aborted
    /\ LET st == ReacceptLoop([w |-> W, pool |-> mempool], PendingSorted(W, Env), Env)
       IN /\ mempool' = st.pool
          /\ Install(st.w, "ReacceptWalletTransactions", 0, TRUE, NoPre)
    /\ UNCHANGED <<utx, chainActive, mapBlockIndex>>

\* getbalance: fills the credit caches
CallGetBalance ==
    /\ ~aborted
    /\ Install(GetBalance(W, Env), "GetBalance", 0, TRUE, NoPre)
    /\ UNCHANGED <<utx, chainActive, mapBlockIndex, mempool>>

InitWallet ==
    /\ mapWallet = <<>>
    /\ mapTxSpends = <<>>
    /\ nOrderPosNext = 0
    /\ chainActive = <<>>
    /\ mapBlockIndex = <<>>
    /\ mempool = {}
    /\ last = [op |-> "none", tx |-> 0, ret |-> TRUE, log |-> <<>>, pre |-> NoPre]
    /\ aborted = FALSE

NoBuild == [pc |-> "idle"]

NoWorklist == [pc |-> "idle"]

Init ==
    /\ utx \in Universes
    /\ InitWallet
    /\ build = NoBuild
    /\ worklist = NoWorklist

\* the credit caches are read by no handler: Next leaves getbalance out and
\* NextCache adds it; a reconnected block touches no cache flag that a
\* connected one does not, so NextCache leaves the reconnection to Next
Next ==
    \/ \E t \in Txids : NotifyTransactionAdded(t)
    \/ \E t \in Txids : NotifyTransactionRemoved(t)
    \/ NotifyBlockConnected
    \/ NotifyBlockReconnected
    \/ NotifyBlockDisconnected
    \/ \E t \in Txids : CallAbandonTransaction(t)
    \/ \E t \in Txids : CallCommitTransaction(t)
    \/ CallReacceptWalletTransactions

Spec == Init /\ [][Next]_vars

InitCache ==
    /\ utx = UniverseChain
    /\ InitWallet
    /\ build = NoBuild
    /\ worklist = NoWorklist

NextCache ==
    \/ \E t \in Txids : NotifyTransactionAdded(t)
    \/ \E t \in Txids : NotifyTransactionRemoved(t)
    \/ NotifyBlockConnected
    \/ NotifyBlockDisconnected
    \/ \E t \in Txids : CallAbandonTransaction(t)
    \/ \E t \in Txids : CallCommitTransaction(t)
    \/ CallReacceptWalletTransactions
    \/ CallGetBalance

SpecCache == InitCache /\ [][NextCache]_vars

InitConflict ==
    /\ utx \in ConflictUniverses
    /\ InitWallet
    /\ build = NoBuild
    /\ worklist = NoWorklist

NextConflict ==
    \/ \E t \in Txids : NotifyTransactionAdded(t)
    \/ \E t \in Txids : NotifyTransactionRemoved(t)
    \/ NotifyBlockConnected
    \/ NotifyBlockReconnected
    \/ NotifyBlockDisconnected

SpecConflict == InitConflict /\ [][NextConflict]_vars

\* every handler, over three spenders of one output of which two are
\* equivalent
InitMeta ==
    /\ utx = UniverseEquivalent
    /\ InitWallet
    /\ build = NoBuild
    /\ worklist = NoWorklist

NextMeta ==
    \/ \E t \in Txids : NotifyTransactionAdded(t)
    \/ \E t \in Txids : NotifyTransactionRemoved(t)
    \/ NotifyBlockConnected
    \/ \E t \in Txids : CallAbandonTransaction(t)
    \/ \E t \in Txids : CallCommitTransaction(t)

SpecMeta == InitMeta /\ [][NextMeta]_vars

\* abandontransaction and the notifications, over a chain of spends with
\* a double spend of its first transaction
InitAbandon ==
    /\ utx = UniverseConflict
    /\ InitWallet
    /\ build = NoBuild
    /\ worklist = NoWorklist

NextAbandon ==
    \/ \E t \in Txids : NotifyTransactionAdded(t)
    \/ \E t \in Txids : NotifyTransactionRemoved(t)
    \/ NotifyBlockConnected
    \/ NotifyBlockDisconnected
    \/ \E t \in Txids : CallAbandonTransaction(t)

SpecAbandon == InitAbandon /\ [][NextAbandon]_vars

\* the notifications and getbalance, over transactions that share parents
InitDirty ==
    /\ utx = UniverseDiamond
    /\ InitWallet
    /\ build = NoBuild
    /\ worklist = NoWorklist

NextDirty ==
    \/ \E t \in Txids : NotifyTransactionAdded(t)
    \/ \E t \in Txids : NotifyTransactionRemoved(t)
    \/ NotifyBlockConnected
    \/ NotifyBlockReconnected
    \/ NotifyBlockDisconnected
    \/ CallGetBalance

SpecDirty == InitDirty /\ [][NextDirty]_vars

\* ------------------------------------------------ building a transaction
(* CreateTransaction runs under cs_main and cs_wallet: no handler of the   *)
(* ledger runs during a build, and the build writes no ledger variable.    *)

Ledger == <<utx, mapWallet, mapTxSpends, nOrderPosNext, chainActive,
            mapBlockIndex, mempool, last, aborted>>

MakeCoin(id, nValue) ==
    [id |-> id, nValue |-> nValue, nDepth |-> 6, fFromMe |-> FALSE,
     fSpendable |-> TRUE, nChain |-> 0]

\* the wallets: up to MaxCoins confirmed spendable coins, smallest first
CoinLists ==
    {[i \in 1..Len(v) |-> MakeCoin(i, v[i])] :
        v \in {s \in UNION {[1..n -> 1..MaxCoinValue] : n \in 0..MaxCoins} :
                  \A i \in 1..(Len(s) - 1) : s[i] <= s[i + 1]}}

Recipients == [nAmount : -1..MaxAmount, fSubtractFeeFromAmount : BOOLEAN]

RecipientLists == UNION {[1..n -> Recipients] : n \in 0..MaxRecipients}

\* no coin control, or the first coin selected by the caller
CoinControls ==
    {[setSelected |-> {}, fAllowOtherInputs |-> FALSE]}
        \cup {[setSelected |-> {1}, fAllowOtherInputs |-> b] : b \in BOOLEAN}

\* a CreateTransaction that draws the order position of the new transaction
CreateTransactionTakesOrderPos(w) == [w EXCEPT !.next = @ + 1]

(* What a CreateTransaction call leaves of the wallet w it runs on.  Its    *)
(* calls on the wallet are AvailableCoins, SelectCoins and mapWallet.find,  *)
(* all const; the transaction it builds goes to the caller's wtxNew, which  *)
(* BindWallet ties to the wallet without entering it in mapWallet; the key  *)
(* it reserves comes from the key pool.  No statement of the function       *)
(* assigns to mapWallet, mapTxSpends or nOrderPosNext.                      *)
CreateTransactionWallet(w) == w

\* the ledger after a step of CreateTransaction
BuildStepLedger ==
    /\ mapWallet' = CreateTransactionWallet(W).mw
    /\ mapTxSpends' = CreateTransactionWallet(W).spends
    /\ nOrderPosNext' = CreateTransactionWallet(W).next
    /\ UNCHANGED <<utx, chainActive, mapBlockIndex, mempool, last, aborted, worklist>>

CallCreateTransaction ==
    /\ build.pc = "begin"
    /\ \E fKeyPool \in BOOLEAN, fTest \in BOOLEAN :
          build' = CreateTransactionBegin(build, fKeyPool, fTest)
    /\ BuildStepLedger

CreateTransactionIterate ==
    /\ build.pc = "loop"
    /\ LET f0 == StartIteration(build)
       IN \E sel \in SelectCoins(f0.vAvailableCoins, f0.nValueToSelect, {}, 0,
                                  f0.coin_control) :
          \E nRand \in 0..Len(build.vecSend) :
          \E fKeyPool \in BOOLEAN, fSigned \in BOOLEAN :
          \E ub \in {"high", "low", "crash"} :
             build' = CreateTransactionLoop(build, sel, nRand, fKeyPool, fSigned, ub)
    /\ BuildStepLedger

CreateTransactionReturn ==
    /\ build.pc = "finish"
    /\ \E sign \in BOOLEAN, fSigned \in BOOLEAN, fChainOk \in BOOLEAN :
          build' = CreateTransactionFinish(build, sign, fSigned, fChainOk)
    /\ BuildStepLedger

InitBuild ==
    /\ utx = UniverseChain
    /\ InitWallet
    /\ worklist = NoWorklist
    /\ \E vecSend \in RecipientLists, coins \in CoinLists :
       \E nChangePosRequest \in -1..MaxRecipients :
       \E coin_control \in CoinControls :
       \E nCoinType \in {"ALL_COINS", "ONLY_DENOMINATED"} :
       \E feeRate \in 0..MaxFeeRate :
          build = NewBuild(vecSend, nChangePosRequest, coins, coin_control,
                           nCoinType, feeRate)

NextBuild ==
    \/ CallCreateTransaction
    \/ CreateTransactionIterate
    \/ CreateTransactionReturn

SpecBuild == InitBuild /\ [][NextBuild]_vars

\* one recipient and amounts large enough to pay a fee out of them
LargeCoinLists ==
    {[i \in 1..Len(v) |-> MakeCoin(i, v[i])] :
        v \in {s \in UNION {[1..n -> 1..MaxLargeCoinValue] : n \in 1..MaxCoins} :
                  \A i \in 1..(Len(s) - 1) : s[i] <= s[i + 1]}}

LargeRecipientLists ==
    {<<[nAmount |-> a, fSubtractFeeFromAmount |-> b]>> :
        a \in 0..MaxLargeAmount, b \in BOOLEAN}

InitBuildOne ==
    /\ utx = UniverseChain
    /\ InitWallet
    /\ worklist = NoWorklist
    /\ \E vecSend \in LargeRecipientLists, coins \in LargeCoinLists :
       \E nChangePosRequest \in -1..1 :
       \E nCoinType \in {"ALL_COINS", "ONLY_DENOMINATED"} :
       \E feeRate \in 0..MaxFeeRate :
          build = NewBuild(vecSend, nChangePosRequest, coins,
                           [setSelected |-> {}, fAllowOtherInputs |-> FALSE],
                           nCoinType, feeRate)

SpecBuildOne == InitBuildOne /\ [][NextBuild]_vars

(* An iteration in two steps: the answers of the random number generator,  *)
(* the key pool, the signer and the read of the change output are drawn,   *)
(* then the iteration runs on them.  pick numbers the outcome of the       *)
(* shuffles of SelectCoins among the outcomes it has, nRand is             *)
(* GetRandInt(txNew.vout.size() + 1).                                      *)
IterationDraws ==
    [pick : 1..(2 ^ MaxCoins + 1), nRand : 0..MaxRecipients, fKeyPool : BOOLEAN,
     fSigned : BOOLEAN, ub : {"high", "low", "crash"}]

Frame(f) == [x \in DOMAIN f \ {"draw"} |-> f[x]]

RECURSIVE Enumerate(_)
Enumerate(S) ==
    IF S = {} THEN <<>>
    ELSE LET x == CHOOSE y \in S : TRUE IN <<x>> \o Enumerate(S \ {x})

\* the outcomes SelectCoins has at the head of the iteration
Selections(f) ==
    Enumerate(SelectCoins(StartIteration(f).vAvailableCoins,
                          StartIteration(f).nValueToSelect, {}, 0, f.coin_control))

CreateTransactionDraw ==
    /\ build.pc = "loop"
    /\ "draw" \notin DOMAIN build
    /\ \E d \in IterationDraws :
          build' = [x \in DOMAIN build \cup {"draw"} |->
                       IF x = "draw" THEN d ELSE build[x]]
    /\ BuildStepLedger

CreateTransactionStep ==
    /\ build.pc = "loop"
    /\ "draw" \in DOMAIN build
    /\ LET f == Frame(build)
           d == build.draw
           sels == Selections(f)
       IN build' = CreateTransactionLoop(f, sels[((d.pick - 1) % Len(sels)) + 1],
                                         d.nRand % (Len(f.vecSend) + 1),
                                         d.fKeyPool, d.fSigned, d.ub)
    /\ BuildStepLedger

\* sendtoaddress with a change position or none
InitBuildLive ==
    /\ utx = UniverseChain
    /\ InitWallet
    /\ worklist = NoWorklist
    /\ \E nAmount \in 1..MaxAmount, fSubtractFeeFromAmount \in BOOLEAN :
       \E coins \in CoinLists, nChangePosRequest \in {-1, 1} :
       \E feeRate \in 0..MaxFeeRate :
          build = NewBuild(<<[nAmount |-> nAmount,
                              fSubtractFeeFromAmount |-> fSubtractFeeFromAmount]>>,
                           nChangePosRequest, coins,
                           [setSelected |-> {}, fAllowOtherInputs |-> FALSE],
                           "ALL_COINS", feeRate)

NextBuildLive ==
    \/ CallCreateTransaction
    \/ CreateTransactionDraw
    \/ CreateTransactionStep
    \/ CreateTransactionReturn

\* ENABLED <<CreateTransactionStep>>_vars: the step exists for every frame
\* with drawn answers and takes the answers out of it
StepEnabled == build.pc = "loop" /\ "draw" \in DOMAIN build

(* A call runs on a thread that is scheduled until it returns: a step of   *)
(* the call that can be taken is taken.  The last conjunct is              *)
(* WF_vars(CreateTransactionStep) with its ENABLED written as StepEnabled. *)
SpecBuildLive ==
    /\ InitBuildLive
    /\ [][NextBuildLive]_vars
    /\ WF_vars(CallCreateTransaction)
    /\ WF_vars(CreateTransactionDraw)
    /\ WF_vars(CreateTransactionReturn)
    /\ ([]<>(~StepEnabled) \/ []<><<CreateTransactionStep>>_vars)

\* recipient lists whose sum reaches the end of the amount range
WideRecipientLists ==
    UNION {[1..n -> [nAmount : {-1, 1, MaxCAmount}, fSubtractFeeFromAmount : {FALSE}]] :
              n \in 1..(MaxRecipients + 1)}

InitBuildAmounts ==
    /\ utx = UniverseChain
    /\ InitWallet
    /\ worklist = NoWorklist
    /\ \E vecSend \in WideRecipientLists, coins \in CoinLists :
       \E feeRate \in 0..MaxFeeRate :
          build = NewBuild(vecSend, -1, coins,
                           [setSelected |-> {}, fAllowOtherInputs |-> FALSE],
                           "ALL_COINS", feeRate)

SpecBuildAmounts == InitBuildAmounts /\ [][NextBuild]_vars

\* ------------------------------------------------ the selector on its own
(* SelectCoinsMinConf called with a target, the confirmation and ancestor  *)
(* limits of a tier and up to MaxSelectCoins candidates of every kind: an  *)
(* output of another's transaction with 6 confirmations or with 1, the     *)
(* wallet's own unconfirmed change with a pool chain of 1 or of 3, and an  *)
(* output the wallet cannot spend.                                         *)
CoinKinds ==
    <<[nDepth |-> 6, fFromMe |-> FALSE, fSpendable |-> TRUE, nChain |-> 0],
      [nDepth |-> 1, fFromMe |-> FALSE, fSpendable |-> TRUE, nChain |-> 0],
      [nDepth |-> 0, fFromMe |-> TRUE, fSpendable |-> TRUE, nChain |-> 1],
      [nDepth |-> 0, fFromMe |-> TRUE, fSpendable |-> TRUE, nChain |-> 3],
      [nDepth |-> 6, fFromMe |-> FALSE, fSpendable |-> FALSE, nChain |-> 0]>>

\* candidate lists, one for each multiset of <<value, kind>>
CandidateLists ==
    {[i \in 1..Len(v) |->
         [id |-> i, nValue |-> v[i][1], nDepth |-> CoinKinds[v[i][2]].nDepth,
          fFromMe |-> CoinKinds[v[i][2]].fFromMe,
          fSpendable |-> CoinKinds[v[i][2]].fSpendable,
          nChain |-> CoinKinds[v[i][2]].nChain]] :
        v \in {s \in UNION {[1..n -> (1..MaxSelectValue) \X (1..Len(CoinKinds))] :
                                n \in 0..MaxSelectCoins} :
                  \A i \in 1..(Len(s) - 1) :
                     \/ s[i][1] < s[i + 1][1]
                     \/ (s[i][1] = s[i + 1][1] /\ s[i][2] <= s[i + 1][2])}}

\* the first three tiers of SelectCoins
SelectTiers == {SelectionTiers[i] : i \in 1..3}

\* the call returns one of the results the shuffle and the random bits allow
CallSelectCoinsMinConf ==
    /\ build.pc = "select"
    /\ \E r \in SelectCoinsMinConf(build.nTargetValue, build.tier[1], build.tier[2],
                                    build.tier[3], build.vCoins) :
          build' = [pc |-> "selected", nTargetValue |-> build.nTargetValue,
                    tier |-> build.tier, vCoins |-> build.vCoins, ret |-> r.ret,
                    setCoinsRet |-> r.setCoinsRet, nValueRet |-> r.nValueRet]
    /\ BuildStepLedger

InitSelect ==
    /\ utx = UniverseChain
    /\ InitWallet
    /\ worklist = NoWorklist
    /\ \E nTargetValue \in 1..MaxTarget, tier \in SelectTiers, vCoins \in CandidateLists :
          build = [pc |-> "select", nTargetValue |-> nTargetValue, tier |-> tier,
                   vCoins |-> vCoins]

NextSelect == CallSelectCoinsMinConf

SpecSelect == InitSelect /\ [][NextSelect]_vars

\* ------------------------------------------------ the key pool and callers
(* The key pool is k = [setInternalKeyPool, setExternalKeyPool,            *)
(* m_max_keypool_index, db]: the two sets of indexes the wallet can hand   *)
(* out, the last index made, and the pool entries of the wallet database.  *)
(* A key is named by its index: TopUpKeyPool makes a new key for every     *)
(* index.  A CReserveKey is rk = [nIndex, fInternal].                      *)

RECURSIVE TopUpLoop(_, _, _)
TopUpLoop(k, i, missingInternal) ==
    IF i = 0 THEN k
    ELSE LET index == k.m_max_keypool_index + 1
             k1 == [k EXCEPT !.m_max_keypool_index = index, !.db = @ \cup {index}]
         IN TopUpLoop(IF i - 1 < missingInternal
                      THEN [k1 EXCEPT !.setInternalKeyPool = @ \cup {index}]
                      ELSE [k1 EXCEPT !.setExternalKeyPool = @ \cup {index}],
                      i - 1, missingInternal)

\* TopUpKeyPool(0) of an unlocked wallet; fHDSplit is
\* IsHDEnabled() && CanSupportFeature(FEATURE_HD_SPLIT)
TopUpKeyPool(k, fHDSplit) ==
    LET nTargetSize == KeyPoolSize
        missingExternal == Max({Max({nTargetSize, 1}) - Cardinality(k.setExternalKeyPool), 0})
        missingInternal == IF fHDSplit
                           THEN Max({Max({nTargetSize, 1}) - Cardinality(k.setInternalKeyPool), 0})
                           ELSE 0
    IN TopUpLoop(k, missingInternal + missingExternal, missingInternal)

\* a reservation that leaves the key in the pool
ReserveKeyLeftInPool(k, fRequestedInternal, fLocked, fHDSplit) ==
    LET k1 == IF ~fLocked THEN TopUpKeyPool(k, fHDSplit) ELSE k
        fReturningInternal == fHDSplit /\ fRequestedInternal
        setKeyPool == IF fReturningInternal THEN k1.setInternalKeyPool
                      ELSE k1.setExternalKeyPool
    IN IF setKeyPool = {} THEN [k |-> k1, nIndex |-> -1, fInternal |-> FALSE]
       ELSE [k |-> k1, nIndex |-> Min(setKeyPool), fInternal |-> fReturningInternal]

\* fLocked is IsLocked(); the result is the pool, nIndex and keypool.fInternal
ReserveKeyFromKeyPool(k, fRequestedInternal, fLocked, fHDSplit) ==
    LET k1 == IF ~fLocked THEN TopUpKeyPool(k, fHDSplit) ELSE k
        fReturningInternal == fHDSplit /\ fRequestedInternal
        setKeyPool == IF fReturningInternal THEN k1.setInternalKeyPool
                      ELSE k1.setExternalKeyPool
        nIndex == Min(setKeyPool)
    IN IF setKeyPool = {} THEN [k |-> k1, nIndex |-> -1, fInternal |-> FALSE]
       ELSE [k |-> IF fReturningInternal
                   THEN [k1 EXCEPT !.setInternalKeyPool = @ \ {nIndex}]
                   ELSE [k1 EXCEPT !.setExternalKeyPool = @ \ {nIndex}],
             nIndex |-> nIndex, fInternal |-> fReturningInternal]

\* CReserveKey::GetReservedKey: the pool, the CReserveKey and the answer
GetReservedKey(k, rk, internal, fLocked, fHDSplit) ==
    IF rk.nIndex = -1
    THEN LET r == ReserveKeyFromKeyPool(k, internal, fLocked, fHDSplit)
         IN IF r.nIndex # -1
            THEN [k |-> r.k, rk |-> [nIndex |-> r.nIndex, fInternal |-> r.fInternal],
                  ret |-> TRUE]
            ELSE [k |-> r.k, rk |-> rk, ret |-> FALSE]
    ELSE [k |-> k, rk |-> rk, ret |-> TRUE]

NoReserveKey == [nIndex |-> -1, fInternal |-> FALSE]

\* CReserveKey::KeepKey and CWallet::KeepKey
KeepKey(k, rk) ==
    [k |-> IF rk.nIndex # -1 THEN [k EXCEPT !.db = @ \ {rk.nIndex}] ELSE k,
     rk |-> NoReserveKey]

\* CReserveKey::ReturnKey and CWallet::ReturnKey
ReturnKey(k, rk) ==
    [k |-> IF rk.nIndex = -1 THEN k
           ELSE IF rk.fInternal
           THEN [k EXCEPT !.setInternalKeyPool = @ \cup {rk.nIndex}]
           ELSE [k EXCEPT !.setExternalKeyPool = @ \cup {rk.nIndex}],
     rk |-> NoReserveKey]

(* Callers 1..NumCallers, one thread each, build a transaction and then    *)
(* commit it or drop it, as MintZerocoin and the users of the wallet's     *)
(* interface do: CreateTransaction, then CommitTransaction or the end of   *)
(* the CReserveKey.  build holds the key pool k, the holders of cs_main    *)
(* and cs_wallet (0 when free), the outpoints spent by the transactions    *)
(* in mapWallet, the committed transactions, and for every caller          *)
(*   pc      where its thread is                                           *)
(*   rk      its CReserveKey                                               *)
(*   change  the key of the change output of txNew, -1 without one         *)
(*   coin    the outpoint txNew spends, 0 before SelectCoins               *)
(*   iter    the iterations of the loop so far                             *)
(*   n       the calls of CreateTransaction it has made                    *)
CallerIds == 1..NumCallers

WalletOutputs == 1..NumOutpoints

NewCaller ==
    [pc |-> "idle", rk |-> NoReserveKey, change |-> -1, coin |-> 0, iter |-> 0, n |-> 0]

\* the end of a LOCK2(cs_main, cs_wallet) scope
Unlocked(b) == [b EXCEPT !.cs_main = 0, !.cs_wallet = 0]

CallersStep(b) ==
    /\ build' = b
    /\ BuildStepLedger

\* LOCK2(cs_main, cs_wallet) of CreateTransaction and of CommitTransaction:
\* cs_main first
CallerLockMain(i) ==
    /\ build.pc = "callers"
    /\ build.cs_main = 0
    /\ \/ build.c[i].pc = "idle" /\ build.c[i].n < MaxBuilds
       \/ build.c[i].pc = "built"
    /\ CallersStep([build EXCEPT !.cs_main = i,
                                 !.c[i].pc = IF @ = "idle" THEN "build_main" ELSE "commit_main"])

\* then cs_wallet
CallerLockWallet(i) ==
    /\ build.pc = "callers"
    /\ build.c[i].pc \in {"build_main", "commit_main"}
    /\ build.cs_wallet = 0
    /\ CallersStep([build EXCEPT !.cs_wallet = i,
                                 !.c[i].pc = IF @ = "build_main" THEN "reserve" ELSE "commit",
                                 !.c[i].n = IF build.c[i].pc = "build_main" THEN @ + 1 ELSE @])

\* CreateTransaction before the loop: the key of the change script
CallerReserve(i) ==
    /\ build.pc = "callers"
    /\ build.c[i].pc = "reserve"
    /\ \E fLocked \in BOOLEAN :
          LET r == GetReservedKey(build.k, build.c[i].rk, TRUE, fLocked, build.fHDSplit)
          IN IF r.ret
             THEN CallersStep([build EXCEPT !.k = r.k, !.c[i].rk = r.rk,
                                            !.c[i].pc = "loop", !.c[i].iter = 0])
             ELSE CallersStep(Unlocked([build EXCEPT !.k = r.k, !.c[i].pc = "failed"]))

\* one iteration of the loop: SelectCoins among the outputs no transaction
\* of the wallet spends, then a change output with the reserved key (kind
\* "change"), a change that is dust ("dust"), or none ("none"); fContinue
\* tells whether the fee asks for another iteration
CallerIterate(i) ==
    /\ build.pc = "callers"
    /\ build.c[i].pc = "loop"
    /\ \E fLocked \in BOOLEAN, fContinue \in BOOLEAN :
       \E kind \in {"change", "dust", "none"} :
       \E coin \in (WalletOutputs \ build.spent) \cup {0} :
          LET me == build.c[i]
              got == IF kind = "none" THEN [k |-> build.k, rk |-> me.rk, ret |-> TRUE]
                     ELSE GetReservedKey(build.k, me.rk, FALSE, fLocked, build.fHDSplit)
              ret == IF kind = "change" THEN got ELSE ReturnKey(got.k, got.rk)
          IN IF coin = 0 \/ ~got.ret
             THEN CallersStep(Unlocked([build EXCEPT !.k = got.k, !.c[i].rk = got.rk,
                                                    !.c[i].pc = "failed"]))
             ELSE CallersStep([build EXCEPT
                     !.k = ret.k,
                     !.c[i].rk = ret.rk,
                     !.c[i].coin = coin,
                     !.c[i].change = IF kind = "change" THEN got.rk.nIndex ELSE -1,
                     !.c[i].iter = @ + 1,
                     !.c[i].pc = IF fContinue /\ me.iter + 1 < MaxKeyIterations
                                 THEN "loop" ELSE "finish"])

\* after the loop: a build without change returns its key; return true
CallerFinish(i) ==
    /\ build.pc = "callers"
    /\ build.c[i].pc = "finish"
    /\ LET me == build.c[i]
           r == IF me.change = -1 THEN ReturnKey(build.k, me.rk)
                ELSE [k |-> build.k, rk |-> me.rk]
       IN CallersStep(Unlocked([build EXCEPT !.k = r.k, !.c[i].rk = r.rk,
                                             !.c[i].pc = "built"]))

\* CommitTransaction under its locks: KeepKey, AddToWallet
CallerCommit(i) ==
    /\ build.pc = "callers"
    /\ build.c[i].pc = "commit"
    /\ LET me == build.c[i]
           r == KeepKey(build.k, me.rk)
       IN CallersStep(Unlocked([build EXCEPT
              !.k = r.k,
              !.spent = @ \cup {me.coin},
              !.committed = Append(@, [caller |-> i, coin |-> me.coin, key |-> me.change]),
              !.c[i] = [NewCaller EXCEPT !.n = me.n]]))

\* the caller gives up: its CReserveKey ends and returns the key under
\* cs_wallet
CallerDrop(i) ==
    /\ build.pc = "callers"
    /\ build.c[i].pc \in {"built", "failed"}
    /\ build.cs_wallet = 0
    /\ LET me == build.c[i]
           r == ReturnKey(build.k, me.rk)
       IN CallersStep([build EXCEPT !.k = r.k, !.c[i] = [NewCaller EXCEPT !.n = me.n]])

InitCallers ==
    /\ utx = UniverseChain
    /\ InitWallet
    /\ worklist = NoWorklist
    /\ \E fHDSplit \in BOOLEAN :
          build = [pc |-> "callers",
                   k |-> [setInternalKeyPool |-> {}, setExternalKeyPool |-> {},
                          m_max_keypool_index |-> 0, db |-> {}],
                   fHDSplit |-> fHDSplit, cs_main |-> 0, cs_wallet |-> 0,
                   spent |-> {}, committed |-> <<>>,
                   c |-> [i \in CallerIds |-> NewCaller]]

NextCallers ==
    \/ \E i \in CallerIds : CallerLockMain(i)
    \/ \E i \in CallerIds : CallerLockWallet(i)
    \/ \E i \in CallerIds : CallerReserve(i)
    \/ \E i \in CallerIds : CallerIterate(i)
    \/ \E i \in CallerIds : CallerFinish(i)
    \/ \E i \in CallerIds : CallerCommit(i)
    \/ \E i \in CallerIds : CallerDrop(i)

SpecCallers == InitCallers /\ [][NextCallers]_vars

\* ---------------------------------------------- cs_main and cs_wallet
(* The critical sections of the wallet's entry points, as the sequence of  *)
(* lock operations a thread performs inside each: LOCK(cs) enters cs at    *)
(* the declaration and leaves it at the end of the enclosing block, and    *)
(* LOCK2(cs1, cs2) enters cs1 and then cs2.  Both mutexes are recursive: a *)
(* thread that holds one enters it again without waiting.                  *)
Enter(cs) == [op |-> "enter", cs |-> cs]

Leave(cs) == [op |-> "leave", cs |-> cs]

LOCK(cs, body) == <<Enter(cs)>> \o body \o <<Leave(cs)>>

LOCK2(cs1, cs2, body) == LOCK(cs1, LOCK(cs2, body))

\* AddToWallet: LOCK(cs_wallet)
AddToWalletLocks == LOCK("cs_wallet", <<>>)

\* MarkConflicted: LOCK2(cs_main, cs_wallet)
MarkConflictedLocks == LOCK2("cs_main", "cs_wallet", <<>>)

\* AddToWalletIfInvolvingMe, under the locks of its caller: MarkConflicted
\* for a conflict found in a block, then AddToWallet
AddToWalletIfInvolvingMeLocks == MarkConflictedLocks \o AddToWalletLocks

TransactionRemovedFromMempoolLocks == LOCK("cs_wallet", <<>>)

\* SyncTransaction is AddToWalletIfInvolvingMe and MarkInputsDirty
TransactionAddedToMempoolLocks ==
    LOCK2("cs_main", "cs_wallet", AddToWalletIfInvolvingMeLocks)

BlockConnectedLocks ==
    LOCK2("cs_main", "cs_wallet",
          AddToWalletIfInvolvingMeLocks \o TransactionRemovedFromMempoolLocks)

\* BlockUntilSyncedToCurrentChain reads the tip under cs_main alone
BlockUntilSyncedToCurrentChainLocks == LOCK("cs_main", <<>>)

\* ScanForWalletTransactions: the tip under cs_main, then for a block the
\* records under both locks and the next index under cs_main
ScanForWalletTransactionsLocks ==
    LOCK("cs_main", <<>>)
        \o LOCK2("cs_main", "cs_wallet", AddToWalletIfInvolvingMeLocks)
        \o LOCK("cs_main", <<>>)

\* LoadWallet holds both locks while the database hands every record to
\* LoadToWallet, which calls MarkConflicted
LoadWalletLocks == LOCK2("cs_main", "cs_wallet", MarkConflictedLocks)

\* LoadTxRecords: LOCK(cs_wallet), MarkConflicted inside
LoadTxRecordsLocks == LOCK("cs_wallet", MarkConflictedLocks)

\* a loader that calls LoadTxRecords with no lock of its own
LoadTxRecordsUnlocked == LoadTxRecordsLocks

\* InitLoadWallet takes both locks around LoadTxRecords
InitLoadWalletLocks == LOCK2("cs_main", "cs_wallet", LoadTxRecordsLocks)

\* CreateTransaction: AvailableCoins takes both locks again, and
\* ReserveKeyFromKeyPool and its TopUpKeyPool take cs_wallet
CreateTransactionLocks ==
    LOCK2("cs_main", "cs_wallet",
          LOCK2("cs_main", "cs_wallet", <<>>)
              \o LOCK("cs_wallet", LOCK("cs_wallet", <<>>)))

CommitTransactionLocks == LOCK2("cs_main", "cs_wallet", AddToWalletLocks)

\* CReserveKey::ReturnKey outside any call: CWallet::ReturnKey
ReturnKeyLocks == LOCK("cs_wallet", <<>>)

LockPaths ==
    [TransactionAddedToMempool |-> TransactionAddedToMempoolLocks,
     TransactionRemovedFromMempool |-> TransactionRemovedFromMempoolLocks,
     BlockConnected |-> BlockConnectedLocks,
     BlockUntilSyncedToCurrentChain |-> BlockUntilSyncedToCurrentChainLocks,
     ScanForWalletTransactions |-> ScanForWalletTransactionsLocks,
     LoadWallet |-> LoadWalletLocks,
     InitLoadWallet |-> InitLoadWalletLocks,
     CreateTransaction |-> CreateTransactionLocks,
     CommitTransaction |-> CommitTransactionLocks,
     ReturnKey |-> ReturnKeyLocks]

(* Threads 1..NumLockThreads call the entry points.  build holds for every *)
(* thread                                                                  *)
(*   entry  the entry point it is in, "" outside any                       *)
(*   ops    the lock operations it has still to perform                    *)
(*   held   the locks it holds, in the order it entered them               *)
(*   n      the calls it has made                                          *)
LockThreads == 1..NumLockThreads

HeldBy(i) == {build.th[i].held[n] : n \in 1..Len(build.th[i].held)}

LocksStep(th) ==
    /\ build' = [build EXCEPT !.th = th]
    /\ BuildStepLedger

LockCall(i) ==
    /\ build.pc = "locks"
    /\ build.th[i].ops = <<>>
    /\ build.th[i].n < MaxLockCalls
    /\ \E e \in DOMAIN LockPaths :
          LocksStep([build.th EXCEPT ![i].entry = e, ![i].ops = LockPaths[e],
                                     ![i].n = @ + 1])

\* a thread enters a lock no other thread holds
LockEnter(i) ==
    /\ build.pc = "locks"
    /\ build.th[i].ops # <<>>
    /\ Head(build.th[i].ops).op = "enter"
    /\ \A j \in LockThreads \ {i} : Head(build.th[i].ops).cs \notin HeldBy(j)
    /\ LocksStep([build.th EXCEPT ![i].held = Append(@, Head(build.th[i].ops).cs),
                                  ![i].ops = Tail(@)])

\* the end of a block: the lock entered last is left
LockLeave(i) ==
    /\ build.pc = "locks"
    /\ build.th[i].ops # <<>>
    /\ Head(build.th[i].ops).op = "leave"
    /\ LocksStep([build.th EXCEPT ![i].held = SubSeq(@, 1, Len(@) - 1),
                                  ![i].ops = Tail(@),
                                  ![i].entry = IF Len(build.th[i].ops) = 1 THEN "" ELSE @])

InitLocks ==
    /\ utx = UniverseChain
    /\ InitWallet
    /\ worklist = NoWorklist
    /\ build = [pc |-> "locks",
                th |-> [i \in LockThreads |->
                           [entry |-> "", ops |-> <<>>, held |-> <<>>, n |-> 0]]]

NextLocks ==
    \/ \E i \in LockThreads : LockCall(i)
    \/ \E i \in LockThreads : LockEnter(i)
    \/ \E i \in LockThreads : LockLeave(i)

SpecLocks == InitLocks /\ [][NextLocks]_vars

\* --------------------------------------------------------- smart times
(* wtxOrdered as the sequence of its entries in the order of nOrderPos: a  *)
(* record of mapWallet (pwtx) with nTimeSmart and nTimeReceived, or an     *)
(* accounting entry (pacentry) with nTime.  wtx is the record AddToWallet  *)
(* has just inserted, the last entry of txOrdered: nTimeReceived, whether  *)
(* its hashBlock is unset, whether mapBlockIndex has the block, and the    *)
(* block's time.                                                           *)
Times == {150 * k : k \in 1..MaxTimeSteps}

\* the clamp left out: the time of the block
ComputeTimeSmartBlockTime(txOrdered, wtx) ==
    IF ~wtx.hashUnset /\ wtx.inIndex THEN wtx.blocktime ELSE wtx.nTimeReceived

\* the time ComputeTimeSmart reads from an entry
EntrySmartTime(e) ==
    IF e.pwtx
    THEN (IF e.nTimeSmart = 0 THEN e.nTimeReceived ELSE e.nTimeSmart)
    ELSE e.nTime

\* the loop from rbegin over the entries 1..i, skipping wtx itself (the last
\* entry): st = [latestNow, latestEntry]
RECURSIVE ScanOrdered(_, _, _, _)
ScanOrdered(txOrdered, i, last_, st) ==
    IF i = 0 THEN st
    ELSE IF i = last_ THEN ScanOrdered(txOrdered, i - 1, last_, st)
    ELSE LET nSmartTime == EntrySmartTime(txOrdered[i])
         IN IF nSmartTime <= st.latestTolerated
            THEN [st EXCEPT !.latestEntry = nSmartTime,
                            !.latestNow = IF nSmartTime > @ THEN nSmartTime ELSE @]
            ELSE ScanOrdered(txOrdered, i - 1, last_, st)

ComputeTimeSmart(txOrdered, wtx) ==
    IF ~wtx.hashUnset /\ wtx.inIndex
    THEN LET st == ScanOrdered(txOrdered, Len(txOrdered), Len(txOrdered),
                               [latestNow |-> wtx.nTimeReceived, latestEntry |-> 0,
                                latestTolerated |-> wtx.nTimeReceived + 300])
         IN Max({st.latestEntry, Min({wtx.blocktime, st.latestNow})})
    ELSE wtx.nTimeReceived

\* AddToWallet of a new transaction: nTimeReceived = GetAdjustedTime(), the
\* entry in wtxOrdered, then nTimeSmart = ComputeTimeSmart(wtx); block is -1
\* for a wtx without a block, 0 for a block mapBlockIndex does not have,
\* and the time of the block otherwise
TimeAddToWallet ==
    /\ build.pc = "time"
    /\ Len(build.txOrdered) < MaxTimeEntries
    /\ \E nTimeReceived \in Times, block \in {-1, 0} \cup Times :
          LET wtx == [pwtx |-> TRUE, nTimeReceived |-> nTimeReceived, nTimeSmart |-> 0,
                      hashUnset |-> block = -1, inIndex |-> block > 0,
                      blocktime |-> IF block > 0 THEN block ELSE 0,
                      nTime |-> 0]
              ordered == Append(build.txOrdered, wtx)
          IN build' = [build EXCEPT !.txOrdered =
                          [ordered EXCEPT ![Len(ordered)].nTimeSmart =
                              ComputeTimeSmart(ordered, wtx)]]
    /\ BuildStepLedger

\* AddAccountingEntry: an accounting entry at the end of wtxOrdered
TimeAddAccountingEntry ==
    /\ build.pc = "time"
    /\ Len(build.txOrdered) < MaxTimeEntries
    /\ \E nNow \in Times :
          build' = [build EXCEPT !.txOrdered =
                       Append(@, [pwtx |-> FALSE, nTimeReceived |-> 0, nTimeSmart |-> 0,
                                  hashUnset |-> TRUE, inIndex |-> TRUE, blocktime |-> 0,
                                  nTime |-> nNow])]
    /\ BuildStepLedger

InitTimeSmart ==
    /\ utx = UniverseChain
    /\ InitWallet
    /\ worklist = NoWorklist
    /\ build = [pc |-> "time", txOrdered |-> <<>>]

NextTimeSmart ==
    \/ TimeAddToWallet
    \/ TimeAddAccountingEntry

SpecTimeSmart == InitTimeSmart /\ [][NextTimeSmart]_vars

\* ------------------------------------------ SelectCoins under coin control
(* AvailableCoins and SelectCoins as CreateTransaction calls them, with a  *)
(* coin control of the caller.  The candidates are the outputs that pass   *)
(* the tests of AvailableCoins before its coin control test; an outpoint   *)
(* the caller selected that is spent, locked, unsafe, not the wallet's or  *)
(* not in mapWallet is an id with no candidate.                            *)
ManualControls ==
    {[setSelected |-> S, fAllowOtherInputs |-> b] :
        S \in (SUBSET (1..(MaxSelectCoins + 1))) \ {{}}, b \in BOOLEAN}

CallSelectCoins ==
    /\ build.pc = "manual"
    /\ \E r \in SelectCoins(AvailableCoins(build.vCoins, build.coin_control),
                             build.nTargetValue, {}, 0, build.coin_control) :
          build' = [pc |-> "manual_done", nTargetValue |-> build.nTargetValue,
                    vCoins |-> build.vCoins, coin_control |-> build.coin_control,
                    ret |-> r.ret, setCoinsRet |-> r.setCoinsRet,
                    nValueRet |-> r.nValueRet]
    /\ BuildStepLedger

InitManual ==
    /\ utx = UniverseChain
    /\ InitWallet
    /\ worklist = NoWorklist
    /\ \E nTargetValue \in 1..MaxTarget, vCoins \in CandidateLists :
       \E coin_control \in ManualControls :
          build = [pc |-> "manual", nTargetValue |-> nTargetValue, vCoins |-> vCoins,
                   coin_control |-> coin_control]

NextManual == CallSelectCoins

SpecManual == InitManual /\ [][NextManual]_vars

\* ---------------------------------- coin control on a wallet with records
(* CreateTransaction with a coin control of the caller, on the wallet as   *)
(* the handlers and lockunspent have left it.  The frame carries           *)
(* setLockedCoins.  A coin is numbered by its outpoint's place among the   *)
(* outpoints of all transactions.  No transaction here is a coinbase, so   *)
(* GetBlocksToMaturity is 0 for every record.                              *)
UniverseOutpoints ==
    LET S == UNION {{<<t, n>> : n \in 0..(Len(utx[t].vout) - 1)} : t \in DOMAIN utx}
        rank(o) == Cardinality({p \in S : p[1] < o[1] \/ (p[1] = o[1] /\ p[2] < o[2])})
    IN [i \in 1..Cardinality(S) |-> CHOOSE o \in S : rank(o) = i - 1]

OutpointId(o) == CHOOSE i \in 1..Len(UniverseOutpoints) : UniverseOutpoints[i] = o

\* setLockedCoins.count(outpt) > 0
IsLockedCoin(setLockedCoins, o) == o \in setLockedCoins

\* COutput(pcoin, i, ...) and CInputCoin(pcoin, i) of an outpoint of a record
WalletCoin(w, o, env) ==
    [id |-> OutpointId(o), nValue |-> utx[o[1]].vout[o[2] + 1].nValue,
     nDepth |-> GetDepthInMainChain(w.mw[o[1]], env.chain, env.index),
     fFromMe |-> IsFromMe(w.mw, o[1]),
     fSpendable |-> utx[o[1]].vout[o[2] + 1].mine,
     nChain |-> IF InMempool(w.mw[o[1]]) THEN 1 ELSE 0]

\* the outputs AvailableCoins keeps before its coin control test
UnlockedCoins(w, env, setLockedCoins) ==
    LET ops == SelectSeq(UniverseOutpoints,
                   LAMBDA o : IsAvailableCoin(w, o, env) /\ ~IsLockedCoin(setLockedCoins, o))
    IN [i \in 1..Len(ops) |-> WalletCoin(w, ops[i], env)]

(* SelectCoins with its preset inputs looked up in mapWallet: an outpoint  *)
(* of the coin control whose transaction has a record is an input, and     *)
(* the candidates that are preset are taken out of vCoins.                 *)
SelectCoinsInWallet(w, env, vAvailableCoins, nTargetValue, coinControl) ==
    IF coinControl.setSelected # {} /\ ~coinControl.fAllowOtherInputs
    THEN SelectCoins(vAvailableCoins, nTargetValue, {}, 0, coinControl)
    ELSE
      LET vPresetInputs == {UniverseOutpoints[id] : id \in coinControl.setSelected}
          setPresetCoins == {WalletCoin(w, o, env) :
                                o \in {p \in vPresetInputs : p[1] \in DOMAIN w.mw}}
          nValueFromPresetInputs == SumCoins(setPresetCoins)
          vCoins == SelectSeq(vAvailableCoins,
                              LAMBDA c : c.id \notin coinControl.setSelected)
      IN IF \E o \in vPresetInputs : o[1] \notin DOMAIN w.mw
         THEN {[ret |-> FALSE, setCoinsRet |-> {}, nValueRet |-> 0]}
         ELSE IF nTargetValue <= nValueFromPresetInputs
         THEN {[ret |-> TRUE, setCoinsRet |-> {c.id : c \in setPresetCoins},
                nValueRet |-> nValueFromPresetInputs]}
         ELSE {[ret |-> r.ret,
                setCoinsRet |-> r.setCoinsRet \cup {c.id : c \in setPresetCoins},
                nValueRet |-> r.nValueRet + nValueFromPresetInputs] :
                   r \in SelectCoinsTiers(nTargetValue - nValueFromPresetInputs,
                                          vCoins, SelectionTiers)}

\* no coin control, or one outpoint selected by the caller
WalletControls ==
    {[setSelected |-> {}, fAllowOtherInputs |-> FALSE]}
        \cup {[setSelected |-> {id}, fAllowOtherInputs |-> b] :
                 id \in 1..Len(UniverseOutpoints), b \in BOOLEAN}

\* lockunspent false: LockCoin of an output of a record
CallLockCoin(o) ==
    /\ ~aborted
    /\ build.pc = "idle"
    /\ o[1] \in DOMAIN mapWallet
    /\ Cardinality(build.setLockedCoins) < MaxLockedCoins
    /\ build' = [build EXCEPT !.setLockedCoins = @ \cup {o}]
    /\ BuildStepLedger

\* CreateTransaction of one recipient under a coin control, up to the loop
CallCreateTransactionControlled ==
    /\ ~aborted
    /\ build.pc = "idle"
    /\ \E nAmount \in 1..MaxAmount, coin_control \in WalletControls :
       \E feeRate \in 0..MaxFeeRate :
          build' = CreateTransactionBegin(
                      NewBuild(<<[nAmount |-> nAmount, fSubtractFeeFromAmount |-> FALSE]>>,
                               -1, UnlockedCoins(W, Env, build.setLockedCoins),
                               coin_control, "ALL_COINS", feeRate),
                      TRUE, TRUE)
                   @@ [setLockedCoins |-> build.setLockedCoins]
    /\ BuildStepLedger

\* one pass of the loop, SelectCoins reading mapWallet
CreateTransactionIterateInWallet ==
    /\ build.pc = "loop"
    /\ LET f0 == StartIteration(build)
       IN \E sel \in SelectCoinsInWallet(W, Env, f0.vAvailableCoins, f0.nValueToSelect,
                                          f0.coin_control) :
          \E nRand \in 0..Len(build.vecSend) :
             build' = CreateTransactionLoop(build, sel, nRand, TRUE, TRUE, "crash")
    /\ BuildStepLedger

InitControl ==
    /\ utx = UniverseConflict
    /\ InitWallet
    /\ build = [pc |-> "idle", setLockedCoins |-> {}]
    /\ worklist = NoWorklist

NextControl ==
    \/ build.pc = "idle" /\ \E t \in Txids : NotifyTransactionAdded(t)
    \/ build.pc = "idle" /\ NotifyBlockConnected
    \/ \E o \in Range(UniverseOutpoints) : CallLockCoin(o)
    \/ CallCreateTransactionControlled
    \/ CreateTransactionIterateInWallet
    \/ CreateTransactionReturn

SpecControl == InitControl /\ [][NextControl]_vars

\* ------------------------------------------ the validation interface queue
(* The node changes its memory pool and its chain under cs_main and puts   *)
(* one notification per transaction or block in the validation interface   *)
(* queue; a background thread calls the wallet's handler for the head of   *)
(* the queue, which takes cs_wallet for that one call.  abandontransaction *)
(* and CommitTransaction run on RPC threads between two such calls.  The   *)
(* frame holds the queue.                                                  *)
Orders(S) == {s \in [1..Cardinality(S) -> S] : \A i, j \in 1..Cardinality(S) :
                                                  s[i] = s[j] => i = j}

Notification(op, tx) == [op |-> op, tx |-> tx]

QueueUnchangedWallet ==
    UNCHANGED <<utx, mapWallet, mapTxSpends, nOrderPosNext, last, aborted, worklist>>

\* AcceptToMemoryPool of a transaction from the network
MempoolAccept(t) ==
    /\ ~aborted
    /\ Len(build.queue) < MaxQueue
    /\ ValidOnTop(t, ChainTxs(chainActive, mapBlockIndex) \cup mempool)
    /\ mempool' = mempool \cup {t}
    /\ build' = [build EXCEPT !.queue =
                    Append(@, Notification("TransactionAddedToMempool", t))]
    /\ UNCHANGED <<chainActive, mapBlockIndex>>
    /\ QueueUnchangedWallet

\* expiry, size limit or replacement: the transaction leaves the memory pool
\* with its descendants, one notification each, in the order of the staged set
MempoolRemove(t) ==
    /\ ~aborted
    /\ t \in mempool
    /\ LET gone == Descendants({t}, mempool)
       IN /\ Len(build.queue) + Cardinality(gone) <= MaxQueue
          /\ mempool' = mempool \ gone
          /\ \E order \in Orders(gone) :
                build' = [build EXCEPT !.queue = @ \o
                            [i \in 1..Len(order) |->
                                Notification("TransactionRemovedFromMempool", order[i])]]
    /\ UNCHANGED <<chainActive, mapBlockIndex>>
    /\ QueueUnchangedWallet

\* a new block extends the best chain
ChainConnect ==
    /\ ~aborted
    /\ Len(build.queue) < MaxQueue
    /\ Len(chainActive) < MaxHeight
    /\ BlockHashes \ DOMAIN mapBlockIndex # {}
    /\ \E vtx \in BlockContents :
          LET b == Min(BlockHashes \ DOMAIN mapBlockIndex)
          IN /\ ValidBlock(vtx, ChainTxs(chainActive, mapBlockIndex))
             /\ chainActive' = Append(chainActive, b)
             /\ mapBlockIndex' =
                   [h \in DOMAIN mapBlockIndex \cup {b} |->
                       IF h = b THEN [nHeight |-> Len(chainActive) + 1, pprev |-> Tip,
                                      vtx |-> vtx]
                       ELSE mapBlockIndex[h]]
             /\ mempool' = (mempool \ Range(vtx)) \ ConflictedBy(vtx, mempool)
             /\ build' = [build EXCEPT !.queue =
                             Append(@, [op |-> "BlockConnected", tx |-> b,
                                        vtxConflicted |->
                                           SetToSeq(ConflictedBy(vtx, mempool))])]
    /\ QueueUnchangedWallet

\* the wallet after a handler of the background thread has returned
QueueInstall(w, n) ==
    /\ mapWallet' = w.mw
    /\ mapTxSpends' = w.spends
    /\ nOrderPosNext' = w.next
    /\ aborted' = ~w.ok
    /\ last' = [op |-> n.op, tx |-> n.tx, ret |-> TRUE, log |-> w.log, pre |-> NoPre]
    /\ build' = [build EXCEPT !.queue = Tail(@)]
    /\ UNCHANGED <<utx, chainActive, mapBlockIndex, mempool, worklist>>

\* the background thread takes the head of the queue and calls its handler
DeliverAdded ==
    /\ ~aborted
    /\ build.queue # <<>>
    /\ Head(build.queue).op = "TransactionAddedToMempool"
    /\ QueueInstall(TransactionAddedToMempool(W, Head(build.queue).tx, Env),
                    Head(build.queue))

DeliverRemoved ==
    /\ ~aborted
    /\ build.queue # <<>>
    /\ Head(build.queue).op = "TransactionRemovedFromMempool"
    /\ QueueInstall(TransactionRemovedFromMempool(W, Head(build.queue).tx),
                    Head(build.queue))

DeliverBlockConnected ==
    /\ ~aborted
    /\ build.queue # <<>>
    /\ Head(build.queue).op = "BlockConnected"
    /\ QueueInstall(BlockConnected(W, mapBlockIndex[Head(build.queue).tx].vtx,
                                   Head(build.queue).tx,
                                   Head(build.queue).vtxConflicted, Env),
                    Head(build.queue))

InitQueue ==
    /\ utx = UniverseChain
    /\ InitWallet
    /\ build = [pc |-> "idle", queue |-> <<>>]
    /\ worklist = NoWorklist

NextQueue ==
    \/ \E t \in Txids : MempoolAccept(t)
    \/ \E t \in Txids : MempoolRemove(t)
    \/ ChainConnect
    \/ DeliverAdded
    \/ DeliverRemoved
    \/ DeliverBlockConnected
    \/ \E t \in Txids : CallAbandonTransaction(t)
    \/ \E t \in Txids : CallCommitTransaction(t)

SpecQueue == InitQueue /\ [][NextQueue]_vars

\* ------------------------------------------- builds on a wallet with records
(* CreateTransaction called on the wallet as the handlers have left it:    *)
(* its candidates are the outputs AvailableCoins finds in mapWallet.  The  *)
(* call holds cs_main and cs_wallet from before AvailableCoins to its      *)
(* return, so no handler runs between its steps.                           *)

\* the outpoints AvailableCoins(fOnlySafe = true) offers, in mapWallet order
WalletOutpoints(w, env) ==
    LET S == {o \in UNION {{<<t, n>> : n \in 0..(Len(utx[t].vout) - 1)} :
                               t \in DOMAIN w.mw} : IsAvailableCoin(w, o, env)}
        rank(o) == Cardinality({p \in S : p[1] < o[1] \/ (p[1] = o[1] /\ p[2] < o[2])})
    IN [i \in 1..Cardinality(S) |-> CHOOSE o \in S : rank(o) = i - 1]

\* vCoins.push_back(COutput(pcoin, i, nDepth, fSpendableIn, fSolvableIn, safeTx))
WalletCoins(w, env) ==
    LET ops == WalletOutpoints(w, env)
    IN [i \in 1..Len(ops) |->
          [id |-> i, nValue |-> utx[ops[i][1]].vout[ops[i][2] + 1].nValue,
           nDepth |-> GetDepthInMainChain(w.mw[ops[i][1]], env.chain, env.index),
           fFromMe |-> IsFromMe(w.mw, ops[i][1]),
           fSpendable |-> TRUE,
           nChain |-> IF InMempool(w.mw[ops[i][1]]) THEN 1 ELSE 0]]

BuildAtRest == build.pc \in {"idle", "done", "crashed"}

\* sendtoaddress: one recipient, no coin control, change at a random position
CallCreateTransactionOnWallet ==
    /\ ~aborted
    /\ BuildAtRest
    /\ \E nAmount \in 1..MaxAmount, fSubtractFeeFromAmount \in BOOLEAN :
       \E feeRate \in 0..MaxFeeRate, fKeyPool \in BOOLEAN, fTest \in BOOLEAN :
          build' = CreateTransactionBegin(
                      NewBuild(<<[nAmount |-> nAmount,
                                  fSubtractFeeFromAmount |-> fSubtractFeeFromAmount]>>,
                               -1, WalletCoins(W, Env),
                               [setSelected |-> {}, fAllowOtherInputs |-> FALSE],
                               "ALL_COINS", feeRate),
                      fKeyPool, fTest)
    /\ BuildStepLedger

InitBuildLedger ==
    /\ utx = UniverseChain
    /\ InitWallet
    /\ build = NoBuild
    /\ worklist = NoWorklist

NextBuildLedger ==
    \/ BuildAtRest /\ \E t \in Txids : NotifyTransactionAdded(t)
    \/ BuildAtRest /\ NotifyBlockConnected
    \/ BuildAtRest /\ \E t \in Txids : CallAbandonTransaction(t)
    \/ BuildAtRest /\ \E t \in Txids : CallCommitTransaction(t)
    \/ CallCreateTransactionOnWallet
    \/ CreateTransactionIterate
    \/ CreateTransactionReturn

SpecBuildLedger == InitBuildLedger /\ [][NextBuildLedger]_vars

\* ------------------------------------- the worklist loops, step by step
(* MarkConflicted and AbandonTransaction run one iteration of their while  *)
(* loop at a time over a spend index drawn at will: any set of spends      *)
(* of one transaction by another between MaxTxs transactions, cycles and   *)
(* double spends included, and                                             *)
(* any record for each of them.                                            *)

\* the spends there can be: <<p, c>>, transaction c spends output 0 of
\* another transaction p
SpendEdges == {e \in (1..MaxTxs) \X (1..MaxTxs) : e[1] # e[2]}

\* the transactions of the set of spends g
GraphUniverse(g) ==
    [t \in 1..MaxTxs |->
        LET parents == SetToSeq({p \in 1..MaxTxs : <<p, t>> \in g})
        IN Tx([i \in 1..Len(parents) |-> <<parents[i], 0>>], << Out(1, TRUE) >>, t)]

\* mapTxSpends after the transactions were added in the order of their ids
RECURSIVE SpendIndexOf(_, _)
SpendIndexOf(u, t) ==
    IF t = 0 THEN <<>>
    ELSE SpendIndexOf(u, t - 1)
            \o [i \in 1..Len(u[t].vin) |-> [prevout |-> u[t].vin[i], wtxid |-> t]]

\* a record that is unconfirmed, in the memory pool, confirmed in the first
\* block, conflicted by the last block, or abandoned
RecordKinds ==
    {NewWalletTx,
     [NewWalletTx EXCEPT !.fInMempool = TRUE],
     SetMerkleBranch(NewWalletTx, Min(BlockHashes), 1),
     SetMerkleBranch(NewWalletTx, Max(BlockHashes), -1),
     setAbandoned(NewWalletTx)}

InitWorklist ==
    /\ utx \in {GraphUniverse(g) : g \in SUBSET SpendEdges}
    /\ mapWallet \in [1..MaxTxs -> RecordKinds]
    /\ mapTxSpends = SpendIndexOf(utx, MaxTxs)
    /\ nOrderPosNext = 0
    /\ chainActive = SetToSeq(BlockHashes)
    /\ mapBlockIndex = [h \in BlockHashes |->
                           [nHeight |-> h - Min(BlockHashes) + 1, vtx |-> <<>>,
                            pprev |-> IF h = Min(BlockHashes) THEN NullHash ELSE h - 1]]
    /\ mempool = {t \in 1..MaxTxs : InMempool(mapWallet[t])}
    /\ last = [op |-> "none", tx |-> 0, ret |-> TRUE, log |-> <<>>, pre |-> NoPre]
    /\ aborted = FALSE
    /\ build = NoBuild
    /\ worklist = NoWorklist

\* MarkConflicted up to its while loop
CallMarkConflicted(hashBlock, hashTx) ==
    /\ worklist.pc = "idle"
    /\ LET conflictconfirms == ConflictConfirms(hashBlock, Env)
       IN worklist' =
            IF conflictconfirms >= 0
            THEN [pc |-> "done", op |-> "MarkConflicted", hashTx |-> hashTx,
                  hashBlock |-> hashBlock, conflictconfirms |-> conflictconfirms,
                  todo |-> {}, done |-> {}, ret |-> TRUE]
            ELSE [pc |-> "run", op |-> "MarkConflicted", hashTx |-> hashTx,
                  hashBlock |-> hashBlock, conflictconfirms |-> conflictconfirms,
                  todo |-> {hashTx}, done |-> {}, ret |-> TRUE]
    /\ UNCHANGED <<Ledger, build>>

\* AbandonTransaction up to its while loop
CallAbandonLoop(hashTx) ==
    /\ worklist.pc = "idle"
    /\ hashTx \in DOMAIN mapWallet
    /\ LET refused == \/ GetDepthInMainChain(mapWallet[hashTx], chainActive, mapBlockIndex) > 0
                      \/ InMempool(mapWallet[hashTx])
       IN worklist' =
            [pc |-> IF refused THEN "done" ELSE "run", op |-> "AbandonTransaction",
             hashTx |-> hashTx, hashBlock |-> NullHash, conflictconfirms |-> 0,
             todo |-> IF refused THEN {} ELSE {hashTx}, done |-> {},
             ret |-> ~refused]
    /\ UNCHANGED <<Ledger, build>>

\* one iteration of the while loop; a failed assert() ends the program
WorklistIterate ==
    /\ worklist.pc = "run"
    /\ worklist.todo # {}
    /\ LET st0 == [w |-> W, todo |-> worklist.todo, done |-> worklist.done]
           st == IF worklist.op = "MarkConflicted"
                 THEN MarkConflictedIteration(st0, worklist.hashBlock,
                                              worklist.conflictconfirms, Env)
                 ELSE AbandonIteration(st0, worklist.hashTx, Env)
       IN /\ mapWallet' = st.w.mw
          /\ aborted' = ~st.w.ok
          /\ worklist' = [worklist EXCEPT
                            !.pc = IF st.w.ok THEN "run" ELSE "aborted",
                            !.todo = st.todo, !.done = st.done]
    /\ UNCHANGED <<utx, mapTxSpends, nOrderPosNext, chainActive, mapBlockIndex,
                   mempool, last, build>>

\* while (!todo.empty()) is over
WorklistReturn ==
    /\ worklist.pc = "run"
    /\ worklist.todo = {}
    /\ worklist' = [worklist EXCEPT !.pc = "done"]
    /\ UNCHANGED <<Ledger, build>>

NextWorklist ==
    \/ \E hashBlock \in BlockHashes, hashTx \in Txids : CallMarkConflicted(hashBlock, hashTx)
    \/ \E hashTx \in Txids : CallAbandonLoop(hashTx)
    \/ WorklistIterate
    \/ WorklistReturn

\* the loop is sequential code: an iteration that can run does run
SpecWorklist ==
    /\ InitWorklist
    /\ [][NextWorklist]_vars
    /\ WF_vars(WorklistIterate)
    /\ WF_vars(WorklistReturn)

\* ------------------------------------------------------------- properties
Depth(mw, t) == GetDepthInMainChain(mw[t], chainActive, mapBlockIndex)

\* the tracked transactions that spend an outpoint
TrackedSpenders(o) == {t \in DOMAIN mapWallet : o \in Inputs(t)}

Outpoints == UNION {Inputs(t) : t \in Txids}

\* the tracked transactions reachable from t over the outputs they spend
RECURSIVE ReachableFrom(_, _)
ReachableFrom(S, mw) ==
    LET more == {d \in DOMAIN mw \ S : \E o \in Inputs(d) : o[1] \in S}
    IN IF more = {} THEN S ELSE ReachableFrom(S \cup more, mw)

SpendDescendants(t, mw) == ReachableFrom({t}, mw) \ {t}

\* C10: IsSpent(outpoint) is true exactly when a tracked spender of the
\* outpoint has depth > 0, or depth 0 and is not abandoned; it is false when
\* every spender is conflicted or abandoned, or there is none.
C10_IsSpentExact ==
    \A o \in Outpoints \cup {<<t, 0>> : t \in Txids} :
        IsSpent(W, o[1], o[2], Env)
            <=> \E t \in TrackedSpenders(o) :
                   \/ Depth(mapWallet, t) > 0
                   \/ (Depth(mapWallet, t) = 0 /\ ~isAbandoned(mapWallet[t]))

C10_Witness ==
    \E o1, o2 \in Outpoints :
        /\ \E t \in TrackedSpenders(o1) : Depth(mapWallet, t) < 0
        /\ IsSpent(W, o1[1], o1[2], Env)
        /\ TrackedSpenders(o2) # {}
        /\ \A t \in TrackedSpenders(o2) : isAbandoned(mapWallet[t])
        /\ ~IsSpent(W, o2[1], o2[2], Env)

LastAbandon == last.op = "AbandonTransaction"

\* C3: after a successful AbandonTransaction(tx), every tracked transaction
\* that spends an output of tx, transitively, and that was unconfirmed and
\* not abandoned before the call, is abandoned.
C3_AbandonReachesAllDescendants ==
    (LastAbandon /\ last.ret /\ ~aborted) =>
        \A d \in SpendDescendants(last.tx, mapWallet) :
            (Depth(last.pre.mw, d) = 0 /\ ~isAbandoned(last.pre.mw[d]))
                => isAbandoned(mapWallet[d])

\* C6: a record whose abandoned flag is set has confirmation depth 0 and is
\* not flagged as in the memory pool.
C6_AbandonedNotInMempool ==
    \A t \in DOMAIN mapWallet :
        isAbandoned(mapWallet[t]) =>
            Depth(mapWallet, t) = 0 /\ ~InMempool(mapWallet[t])

\* an abandoned child whose parent is in the memory pool, next to a
\* transaction that was abandoned and has entered the memory pool again
C6_Witness ==
    /\ last.op = "TransactionAddedToMempool"
    /\ \E a, b \in DOMAIN mapWallet :
          /\ isAbandoned(mapWallet[a])
          /\ InMempool(mapWallet[b])
          /\ \E o \in Inputs(a) : o[1] = b

\* C7: AbandonTransaction on a record with depth > 0 or in the memory pool
\* returns false and changes nothing: no record, no spend index entry, no
\* credit cache flag.
C7_AbandonRefusedChangesNothing ==
    (LastAbandon /\ (last.pre.depth > 0 \/ InMempool(last.pre.mw[last.tx]))) =>
        /\ ~last.ret
        /\ ~aborted
        /\ mapWallet = last.pre.mw
        /\ mapTxSpends = last.pre.spends
        /\ nOrderPosNext = last.pre.next

\* a refused abandon of a record with a tracked child and a filled cache
C7_Witness ==
    /\ LastAbandon
    /\ ~last.ret
    /\ SpendDescendants(last.tx, mapWallet) # {}
    /\ \E t \in DOMAIN mapWallet : mapWallet[t].fAvailableCreditCached
    /\ \E t \in DOMAIN mapWallet : Depth(mapWallet, t) > 0
    /\ \E t \in DOMAIN mapWallet : InMempool(mapWallet[t])

\* C8 as claimed: AbandonTransaction on an already conflicted record (negative
\* depth) returns an error.
C8_AbandonConflictedFails ==
    (LastAbandon /\ last.pre.depth < 0) => ~last.ret

\* C8 as the code has it: AbandonTransaction on an already conflicted record
\* that is not in the memory pool returns true and changes nothing.
C8_AbandonConflictedIsNoOp ==
    (LastAbandon /\ last.pre.depth < 0 /\ ~InMempool(last.pre.mw[last.tx])) =>
        /\ last.ret
        /\ ~aborted
        /\ mapWallet = last.pre.mw
        /\ mapTxSpends = last.pre.spends

C8_Witness ==
    /\ LastAbandon
    /\ last.pre.depth < 0
    /\ last.ret
    /\ SpendDescendants(last.tx, mapWallet) # {}

NeverAborted == ~aborted

\* the MarkConflicted calls the last handler made
MarkConflictedCalls == {i \in 1..Len(last.log) : last.log[i].ev = "MarkConflicted"}

\* the call changed its transaction: the block conflicts deeper than the
\* record's depth before the call
MarkedByCall(e) == ConflictConfirms(e.hashBlock, Env) < e.before

\* C2: when one MarkConflicted(block, A) call marks A conflicted, then at its
\* return every tracked transaction reachable from A over the spend index has
\* a negative depth and position -1.  (The claim asks, in addition, for their
\* block reference to be the conflicting block.)
C2_MarkConflictedReachesAllDescendants ==
    \A i \in MarkConflictedCalls :
        LET e == last.log[i]
        IN MarkedByCall(e) =>
              \A d \in SpendDescendants(e.tx, e.post) :
                  /\ GetDepthInMainChain(e.post[d], chainActive, mapBlockIndex) < 0
                  /\ e.post[d].nIndex = -1

\* the AddToWalletIfInvolvingMe event that a log entry belongs to
RECURSIVE SyncOf(_)
SyncOf(i) ==
    IF i = 0 THEN 0
    ELSE IF last.log[i].ev = "AddToWalletIfInvolvingMe" THEN i
    ELSE SyncOf(i - 1)

\* C4 as claimed: a MarkConflicted call of SyncTransaction comes after the
\* AddToWallet of the observed transaction.
C4_UpsertBeforeMarkConflicted ==
    \A i \in MarkConflictedCalls :
        \E j \in SyncOf(i)..i :
            /\ last.log[j].ev = "AddToWallet"
            /\ last.log[j].tx = last.log[SyncOf(i)].tx

\* C4 as the code has it: every MarkConflicted call of SyncTransaction comes
\* before the AddToWallet of the observed transaction; a transaction seen for
\* the first time is not in mapWallet when the conflicts are marked.
C4_MarkConflictedBeforeUpsert ==
    \A i \in MarkConflictedCalls :
        LET b == SyncOf(i)
        IN /\ b > 0
           /\ \A j \in b..i : last.log[j].ev # "AddToWallet"
           /\ ~last.log[b].fExisted => last.log[b].tx \notin DOMAIN last.log[i].post

\* a first-seen transaction of a block conflicted a tracked spender and was
\* then added
C4_Witness ==
    \E i \in MarkConflictedCalls :
        /\ MarkedByCall(last.log[i])
        /\ ~last.log[SyncOf(i)].fExisted
        /\ \E j \in (i + 1)..Len(last.log) :
              /\ last.log[j].ev = "AddToWallet"
              /\ last.log[j].tx = last.log[SyncOf(i)].tx
              /\ last.log[j].fInsertedNew

\* the wtxIn of a notification: without a block, or in a known block
ObservedAs == {NewWalletTx}
                \cup {SetMerkleBranch(NewWalletTx, b, 1) : b \in DOMAIN mapBlockIndex}

CacheOf(wtx) == <<wtx.fAvailableCreditCached, wtx.nAvailableCreditCached>>

\* C9: a second AddToWallet of the same transaction with no new block
\* reference leaves the record's nOrderPos, its cached amount and cache flag,
\* mapTxSpends and nOrderPosNext as the first call left them.
C9_SecondUpsertChangesNothing ==
    \A t \in Txids :
        \A wtxIn \in ObservedAs :
            LET w1 == AddToWallet(W, t, wtxIn)
                w2 == AddToWallet(w1, t, wtxIn)
            IN /\ w2.mw[t].nOrderPos = w1.mw[t].nOrderPos
               /\ CacheOf(w2.mw[t]) = CacheOf(w1.mw[t])
               /\ w2.spends = w1.spends
               /\ w2.next = w1.next
               /\ DOMAIN w2.mw = DOMAIN w1.mw

\* the last handler observed again a record that is abandoned, confirmed or
\* conflicted, in a wallet with a filled cache
C9_Witness ==
    /\ \E i \in 1..Len(last.log) :
          /\ last.log[i].ev = "AddToWallet"
          /\ ~last.log[i].fInsertedNew
    /\ \E t \in DOMAIN mapWallet : isAbandoned(mapWallet[t])
    /\ \E t \in DOMAIN mapWallet : Depth(mapWallet, t) > 0
    /\ \E t \in DOMAIN mapWallet : mapWallet[t].fAvailableCreditCached

\* the values of the inputs the built transaction spends
SelectedValue == SumCoins({c \in Range(build.coins) : c.id \in build.setCoins})

BuildSucceeded == build.pc = "done" /\ build.ret

\* C1: after every successful build the values of the selected inputs sum to
\* the values of the outputs of the built transaction plus nFeeRet.
C1_Conservation ==
    BuildSucceeded => SelectedValue = SumOut(build.vout) + build.nFeeRet

\* the other tracked transactions that spend an outpoint the transaction spends
ConflictingSpenders(t) ==
    {c \in DOMAIN mapWallet \ {t} : Inputs(c) \cap Inputs(t) # {}}

\* C11 as claimed: CWallet::GetConflicts(txid) returns exactly the other
\* tracked spenders of the transaction's outpoints and never txid itself.
C11_GetConflictsExcludesSelf ==
    \A t \in DOMAIN mapWallet : GetConflicts(W, t) = ConflictingSpenders(t)

\* C11 as the code has it: CWalletTx::GetConflicts returns exactly the other
\* tracked spenders of the transaction's outpoints, never the transaction
\* itself, and nothing when no outpoint is shared; the CWallet::GetConflicts
\* it calls returns that set together with txid itself whenever the set is
\* not empty, and nothing for a transaction that is not tracked.
C11_GetConflictsOfWalletTx ==
    \A t \in Txids :
        IF t \in DOMAIN mapWallet
        THEN /\ WalletTxGetConflicts(W, t) = ConflictingSpenders(t)
             /\ GetConflicts(W, t) =
                  IF ConflictingSpenders(t) = {} THEN {} ELSE ConflictingSpenders(t) \cup {t}
        ELSE GetConflicts(W, t) = {}

\* a tracked transaction with a conflict next to one that shares no outpoint
C11_Witness ==
    \E a, b \in DOMAIN mapWallet :
        /\ WalletTxGetConflicts(W, a) # {}
        /\ a \in GetConflicts(W, a)
        /\ WalletTxGetConflicts(W, b) = {}

\* the records a MarkConflicted call marked: it sets nIndex -1 and hashBlock
MarkedRecords(e) ==
    {r \in DOMAIN e.pre : <<e.post[r].nIndex, e.post[r].hashBlock>>
                            # <<e.pre[r].nIndex, e.pre[r].hashBlock>>}

\* the records the block of the call does not conflict deeper than they are
NotDeeperFor(e) ==
    {r \in DOMAIN e.pre :
        ConflictConfirms(e.hashBlock, Env)
            >= GetDepthInMainChain(e.pre[r], chainActive, mapBlockIndex)}

\* a call with a block that is unknown or off the best chain changes nothing
UnknownBlockChangesNothing ==
    \A hb \in BlockHashes \cup {NullHash} :
        ConflictConfirms(hb, Env) >= 0 =>
            \A t \in DOMAIN mapWallet : MarkConflicted(W, hb, t, Env).mw = mapWallet

\* a record is marked only as the argument of the call or through a marked
\* record it spends
VisitedThroughMarked(e) ==
    /\ e.tx \in NotDeeperFor(e) => e.post = e.pre
    /\ \A r \in MarkedRecords(e) \ {e.tx} :
          \E i \in 1..Len(utx[r].vin) : utx[r].vin[i][1] \in MarkedRecords(e)

\* C12 as claimed: MarkConflicted changes nothing of a record the block does
\* not conflict deeper than its current depth, its dirty bits included.
C12_NotDeeperRecordUntouched ==
    \A i \in MarkConflictedCalls :
        \A r \in NotDeeperFor(last.log[i]) : last.log[i].post[r] = last.log[i].pre[r]

\* C12 as the code has it: a record the block does not conflict deeper than
\* its current depth keeps its position and block reference and no spender is
\* visited through it; its dirty bits are unchanged unless it is an input of a
\* record the call marks, which marks it dirty.  A call with an unknown or
\* off-chain block changes no record.
C12_NotDeeperRecordKeepsPosition ==
    /\ UnknownBlockChangesNothing
    /\ \A i \in MarkConflictedCalls :
          LET e == last.log[i]
          IN /\ VisitedThroughMarked(e)
             /\ \A r \in NotDeeperFor(e) :
                   \/ e.post[r] = e.pre[r]
                   \/ /\ e.post[r] = MarkDirty(e.pre[r])
                      /\ \E x \in MarkedRecords(e) :
                            \E j \in 1..Len(utx[x].vin) : utx[x].vin[j][1] = r

\* a call that marks its transaction, skips a spender that is already
\* conflicted as deep, and marks that spender dirty as the input of another
C12_Witness ==
    \E i \in MarkConflictedCalls :
        LET e == last.log[i]
        IN /\ e.tx \in MarkedRecords(e)
           /\ \E r \in NotDeeperFor(e) :
                 /\ \E j \in 1..Len(utx[r].vin) : utx[r].vin[j][1] = e.tx
                 /\ e.post[r] # e.pre[r]

\* the loop has ended: the worklist is empty, or an assert() stopped the program
WorklistEnded == worklist.pc \in {"done", "aborted"}

C14_FeeFloor ==
    BuildSucceeded =>
        build.nFeeRet >= GetRelayFee(GetVirtualTransactionSize(build.setCoins, build.vout))

\* a build with a change output that took more than one pass and pays
\* exactly the minimum relay fee
C14_Witness ==
    /\ BuildSucceeded
    /\ \E i \in 1..Len(build.vout) : build.vout[i].dest = 0
    /\ build.nFeeRet = GetRelayFee(GetVirtualTransactionSize(build.setCoins, build.vout))
    /\ build.nFeeRet > 0

\* nChange of the last pass of the build
LastChange == build.nValueIn - build.nValueToSelect

DustChange == 0 < LastChange /\ IsDust(LastChange, CHANGE_DUST_THRESHOLD)

ChangeOutputs == {i \in 1..Len(build.vout) : build.vout[i].dest = 0}

\* C15 as claimed: in every successful build, with or without recipients
\* that pay the fee, a change amount below the dust threshold is added to the
\* fee, there is no change output and the change position is -1.
C15_DustChangeAlwaysFolded ==
    (BuildSucceeded /\ DustChange) =>
        /\ ChangeOutputs = {}
        /\ build.nChangePosInOut = -1

\* C15 as the code has it: no successful build has a change output below the
\* dust threshold.  When no recipient pays the fee, a dust change is added to
\* the fee: there is no change output and the change position is -1 (for
\* ONLY_DENOMINATED coins any change is added to the fee and the position stays
\* as requested).  When a recipient pays the fee, a dust change is raised to
\* the dust threshold out of the first such recipient's output and emitted.
C15_NoDustChangeOutput ==
    BuildSucceeded =>
        /\ \A i \in ChangeOutputs : ~IsDust(build.vout[i].nValue, CHANGE_DUST_THRESHOLD)
        /\ (DustChange /\ build.nCoinType = "ONLY_DENOMINATED") =>
              /\ ChangeOutputs = {}
              /\ build.nChangePosInOut = build.nChangePosRequest
              /\ build.nFeeRet >= LastChange
        /\ (DustChange /\ build.nCoinType # "ONLY_DENOMINATED"
                /\ build.nSubtractFeeFromAmount = 0) =>
              /\ ChangeOutputs = {}
              /\ build.nChangePosInOut = -1
              /\ build.nFeeRet >= LastChange
              /\ SelectedValue = SumOut(build.vout) + build.nFeeRet
        /\ (DustChange /\ build.nCoinType # "ONLY_DENOMINATED"
                /\ build.nSubtractFeeFromAmount > 0) =>
              /\ Cardinality(ChangeOutputs) = 1
              /\ \A i \in ChangeOutputs : build.vout[i].nValue = CHANGE_DUST_THRESHOLD

\* a dust change folded into the fee of a build whose recipient pays no fee
C15_Witness ==
    /\ BuildSucceeded
    /\ DustChange
    /\ build.nCoinType = "ALL_COINS"
    /\ build.nSubtractFeeFromAmount = 0
    /\ build.nChangePosRequest # -1
    /\ build.nChangePosInOut = -1

\* the Ledger Index: the records with their block reference, position, mempool
\* flag and insertion order, the spend index and the next insertion order
LedgerIndex ==
    <<[t \in DOMAIN mapWallet |->
          <<mapWallet[t].hashBlock, mapWallet[t].nIndex, mapWallet[t].fInMempool,
            mapWallet[t].nOrderPos>>],
      mapTxSpends, nOrderPosNext>>

RECURSIVE SumAmounts(_)
SumAmounts(vecSend) ==
    IF vecSend = <<>> THEN 0 ELSE Head(vecSend).nAmount + SumAmounts(Tail(vecSend))

\* a negative amount, or a sum of the first recipients past the amount range
InvalidAmounts(vecSend) ==
    \/ \E i \in 1..Len(vecSend) : vecSend[i].nAmount < 0
    \/ \E i \in 1..Len(vecSend) : SumAmounts(SubSeq(vecSend, 1, i)) > MaxCAmount

(* C17: a recipient list with a negative amount, or whose amounts sum past *)
(* the amount range, the last recipient included, never reaches the coin   *)
(* selection: CreateTransaction returns false for it with no coin          *)
(* selected.  (A call that finds the key pool empty is counted as          *)
(* rejected.)                                                              *)
C17_InvalidAmountRejected ==
    InvalidAmounts(build.vecSend)
        => /\ build.pc \in {"begin", "done"}
           /\ build.pc = "done"
                => /\ ~build.ret
                   /\ build.setCoins = {}
                   /\ build.strFailReason \in
                         {"Transaction amounts must not be negative",
                          "Keypool ran out, please call keypoolrefill first"}

\* a negative amount is rejected by every build, before coins are selected
C17_NegativeAmountRejected ==
    (build.pc \notin {"idle", "begin"}
        /\ \E i \in 1..Len(build.vecSend) : build.vecSend[i].nAmount < 0)
        => /\ build.pc = "done"
           /\ ~build.ret
           /\ build.strFailReason = "Transaction amounts must not be negative"
           /\ build.setCoins = {}

\* an overflow of the sum goes unnoticed and the build succeeds
C17_OverflowBuilt ==
    /\ build.pc = "done"
    /\ build.ret
    /\ SumAmounts(build.vecSend) > MaxCAmount

(* C18: every call of CreateTransaction returns, with a built transaction  *)
(* or with an error, whatever coins the selection draws and whatever the   *)
(* fee rate is.                                                            *)
C18_BuildReturns == (build.pc = "begin") ~> (build.pc = "done")

\* the loop of every call stops: the call returns, or it ends in the read of
\* a change output the transaction does not have
C18_LoopStops == (build.pc = "begin") ~> (build.pc \in {"done", "crashed"})

\* the candidates a tier lets through: spendable, deep enough for their owner,
\* and with a chain in the pool below the tier's limit
EligibleCandidates ==
    {c \in Range(build.vCoins) :
        /\ c.fSpendable
        /\ c.nDepth >= (IF c.fFromMe THEN build.tier[1] ELSE build.tier[2])
        /\ (c.nDepth > 0 \/ c.nChain < build.tier[3])}

ReturnedCoins == {c \in Range(build.vCoins) : c.id \in build.setCoinsRet}

SelectSucceeded == build.pc = "selected" /\ build.ret

(* C19: when SelectCoinsMinConf returns true, the coins it returns are     *)
(* candidates that are spendable and pass the confirmation and ancestor    *)
(* limits of the tier, nValueRet is the sum of their values, and it is at  *)
(* least the target.                                                       *)
C19_SelectionSound ==
    SelectSucceeded
        => /\ build.setCoinsRet \subseteq {c.id : c \in EligibleCandidates}
           /\ build.nValueRet = SumCoins(ReturnedCoins)
           /\ build.nValueRet >= build.nTargetValue

\* a success that returns two coins, worth more than the target, and leaves
\* out a spendable candidate the tier refuses
C19_Witness ==
    /\ SelectSucceeded
    /\ Cardinality(build.setCoinsRet) = 2
    /\ \E c \in Range(build.vCoins) \ EligibleCandidates : c.fSpendable
    /\ build.nValueRet > build.nTargetValue

(* C20: when a candidate the tier accepts has exactly the target's value,  *)
(* SelectCoinsMinConf returns true with one coin alone, of that value,     *)
(* whatever the shuffle and whatever the other candidates are.             *)
C20_ExactMatchAlone ==
    (build.pc = "selected" /\ \E c \in EligibleCandidates : c.nValue = build.nTargetValue)
        => /\ build.ret
           /\ \E c \in EligibleCandidates :
                 /\ c.nValue = build.nTargetValue
                 /\ build.setCoinsRet = {c.id}
           /\ build.nValueRet = build.nTargetValue

\* coins of 1, 3 and 5, all accepted, and a target of 5: the coin of 5 alone
C20_Witness ==
    /\ build.pc = "selected"
    /\ {c.nValue : c \in EligibleCandidates} = {1, 3, 5}
    /\ build.nTargetValue = 5
    /\ ReturnedCoins # {}
    /\ \A c \in ReturnedCoins : c.nValue = 5

\* the results the call of a state can return
SelectResults ==
    SelectCoinsMinConf(build.nTargetValue, build.tier[1], build.tier[2],
                       build.tier[3], build.vCoins)

\* the accepted candidates below target + MIN_CHANGE
SmallCoins == {c \in EligibleCandidates : c.nValue < build.nTargetValue + MIN_CHANGE}

LargerCoins == EligibleCandidates \ SmallCoins

\* no accepted coin has the target's value, and some of the small ones sum to it
ExactSumCase ==
    /\ build.pc \in {"select", "selected"}
    /\ \A c \in EligibleCandidates : c.nValue # build.nTargetValue
    /\ \E S \in SUBSET SmallCoins : S # {} /\ SumCoins(S) = build.nTargetValue

(* C21 as stated: in the exact-sum case every result is a set of coins     *)
(* that sums to the target.                                                *)
C21_ExactSumAlways ==
    (ExactSumCase /\ build.pc = "selected")
        => build.ret /\ build.nValueRet = build.nTargetValue

(* C21: in the exact-sum case the call always succeeds with at least the   *)
(* target, a subset that sums to the target is among its results, and a    *)
(* result that sums to the target is made of small coins only; the other   *)
(* results are the ones the random bits of the approximation leave.        *)
C21_ExactSumPossible ==
    ExactSumCase
        => /\ \A r \in SelectResults : r.ret /\ r.nValueRet >= build.nTargetValue
           /\ \E r \in SelectResults :
                 /\ r.nValueRet = build.nTargetValue
                 /\ r.setCoinsRet \subseteq {c.id : c \in SmallCoins}
           /\ (build.pc = "selected" /\ build.nValueRet = build.nTargetValue)
                 => build.setCoinsRet \subseteq {c.id : c \in SmallCoins}

\* coins of 2, 4 and 1 and a target of 3: the coins of 2 and 1 are returned
C21_Witness ==
    /\ ExactSumCase
    /\ build.pc = "selected"
    /\ build.nTargetValue = 3
    /\ {c.nValue : c \in EligibleCandidates} = {1, 2, 4}
    /\ {c.nValue : c \in ReturnedCoins} = {1, 2}

\* the small coins do not reach the target
SmallCoinsShort ==
    /\ build.pc = "selected"
    /\ SumCoins(SmallCoins) < build.nTargetValue

(* C22: when the accepted coins below target + MIN_CHANGE sum to less than *)
(* the target, the call returns one coin alone, a larger coin of the       *)
(* lowest value among the larger ones, and succeeds; when there is no      *)
(* larger coin it returns false, no coin and a value of 0.                 *)
C22_SmallestLargerOrFail ==
    SmallCoinsShort
        => IF LargerCoins = {}
           THEN ~build.ret /\ build.setCoinsRet = {} /\ build.nValueRet = 0
           ELSE /\ build.ret
                /\ \E c \in LargerCoins :
                      /\ build.setCoinsRet = {c.id}
                      /\ build.nValueRet = c.nValue
                      /\ \A d \in LargerCoins : c.nValue <= d.nValue

\* target 1, accepted coins of 5 and 6 and none smaller: the coin of 5
C22_Witness ==
    /\ SmallCoinsShort
    /\ build.nTargetValue = 1
    /\ {c.nValue : c \in EligibleCandidates} = {5, 6}
    /\ {c.nValue : c \in ReturnedCoins} = {5}

\* coins of 1 and 2 and a target of 5: the call fails and returns no coin
C22_WitnessFails ==
    /\ SmallCoinsShort
    /\ build.nTargetValue = 5
    /\ {c.nValue : c \in EligibleCandidates} = {1, 2}
    /\ ~build.ret
    /\ build.setCoinsRet = {}

\* the small coins sum to more than the target
SmallCoinsExceed ==
    /\ build.pc = "selected"
    /\ SumCoins(SmallCoins) > build.nTargetValue

\* the call returned one of the larger coins of the lowest value, alone
ReturnedLowestLarger ==
    \E c \in LargerCoins :
       /\ build.setCoinsRet = {c.id}
       /\ \A d \in LargerCoins : c.nValue <= d.nValue

\* the call returned small coins only
ReturnedSubset == ReturnedCoins \subseteq SmallCoins

(* C23 as stated, in what it requires of the result: with a larger coin    *)
(* at hand, a subset is returned only when it is closer to the target than *)
(* the lowest larger coin, and the larger coin only when some subset of    *)
(* the small coins that reaches the target is no closer than the coin.     *)
C23_SmallerExcess ==
    (SmallCoinsExceed /\ LargerCoins # {})
        => \/ /\ ReturnedSubset
              /\ \A c \in LargerCoins : build.nValueRet < c.nValue
           \/ /\ ReturnedLowestLarger
              /\ \E S \in SUBSET SmallCoins :
                    /\ SumCoins(S) >= build.nTargetValue
                    /\ SumCoins(S) >= build.nValueRet

(* C23: when the small coins sum to more than the target the call          *)
(* succeeds, and it returns either the lowest larger coin alone or small   *)
(* coins that reach the target; with a larger coin at hand, small coins    *)
(* are returned only when their sum is the target itself or at least       *)
(* target + MIN_CHANGE, and below the value of the larger coin.            *)
C23_LargerOrGoodSubset ==
    SmallCoinsExceed
        => /\ build.ret
           /\ \/ ReturnedLowestLarger
              \/ /\ ReturnedSubset
                 /\ build.nValueRet >= build.nTargetValue
                 /\ LargerCoins # {}
                       => /\ \/ build.nValueRet = build.nTargetValue
                             \/ build.nValueRet >= build.nTargetValue + MIN_CHANGE
                          /\ \A c \in LargerCoins : build.nValueRet < c.nValue

\* target 1, accepted coins of 2 and 5: the coin of 5 is returned although
\* the coin of 2 is closer to the target
C23_Witness ==
    /\ SmallCoinsExceed
    /\ build.nTargetValue = 1
    /\ {c.nValue : c \in EligibleCandidates} = {2, 5}
    /\ {c.nValue : c \in ReturnedCoins} = {5}

\* target 1, accepted coins of 2, 3 and 6: the coins of 2 and 3 are
\* returned, their sum of 5 leaving change of MIN_CHANGE
C23_WitnessSubset ==
    /\ SmallCoinsExceed
    /\ build.nTargetValue = 1
    /\ {c.nValue : c \in EligibleCandidates} = {2, 3, 6}
    /\ {c.nValue : c \in ReturnedCoins} = {2, 3}

\* SelectCoins has returned to a caller who selected outpoints and allowed
\* no other input
ManualOnly ==
    /\ build.pc = "manual_done"
    /\ build.coin_control.setSelected # {}
    /\ ~build.coin_control.fAllowOtherInputs

\* the candidates the caller selected
PreselectedCoins == {c \in Range(build.vCoins) : c.id \in build.coin_control.setSelected}

(* C24 as stated, for the calls that succeed: with outpoints selected and  *)
(* no other input allowed, a SelectCoins that returns true returns exactly *)
(* the selected outpoints, and their sum reaches the target.               *)
C24_ExactlyPreselected ==
    (ManualOnly /\ build.ret)
        => /\ build.setCoinsRet = build.coin_control.setSelected
           /\ build.nValueRet >= build.nTargetValue

\* what the code keeps of it: only selected outpoints are returned, namely
\* the spendable candidates among them, with their sum, and the call
\* succeeds if and only if that sum reaches the target
C24_OnlyPreselected ==
    ManualOnly
        => /\ build.setCoinsRet \subseteq build.coin_control.setSelected
           /\ build.setCoinsRet = {c.id : c \in {d \in PreselectedCoins : d.fSpendable}}
           /\ build.nValueRet = SumCoins({d \in PreselectedCoins : d.fSpendable})
           /\ build.ret <=> (build.nValueRet >= build.nTargetValue)

\* outpoints 1 and 3 selected, the third not among the candidates: the call
\* succeeds with the first alone
C24_DroppedSilently ==
    /\ ManualOnly
    /\ build.coin_control.setSelected = {1, 3}
    /\ Len(build.vCoins) = 2
    /\ build.ret
    /\ build.setCoinsRet = {1}

\* GetDepthInMainChain of the record of t in the wallet as it stands
DepthOf(t) == GetDepthInMainChain(mapWallet[t], chainActive, mapBlockIndex)

\* the transactions whose outputs t spends
ParentsOf(t) == {utx[t].vin[i][1] : i \in 1..Len(utx[t].vin)}

(* C25 as stated, one step of its recursion: a record at depth 0 is        *)
(* trusted only if every transaction it spends from is in the wallet and,  *)
(* when that one is unconfirmed too, is from the wallet and in the memory  *)
(* pool.                                                                   *)
C25_TrustedAncestors ==
    \A t \in DOMAIN mapWallet :
       (DepthOf(t) = 0 /\ IsTrusted(W, t, Env))
          => \A p \in ParentsOf(t) :
                /\ p \in DOMAIN mapWallet
                /\ DepthOf(p) = 0 => IsFromMe(mapWallet, p) /\ InMempool(mapWallet[p])

\* what IsTrusted does test: a record at depth 0 is trusted only if it is
\* from the wallet and in the memory pool and every output it spends is an
\* output of a wallet record and the wallet's; a confirmed record is
\* trusted, a conflicted one is not
C25_TrustedParentsOutputs ==
    \A t \in DOMAIN mapWallet :
       /\ DepthOf(t) >= 1 => IsTrusted(W, t, Env)
       /\ DepthOf(t) < 0 => ~IsTrusted(W, t, Env)
       /\ (DepthOf(t) = 0 /\ IsTrusted(W, t, Env))
             => /\ IsFromMe(mapWallet, t)
                /\ InMempool(mapWallet[t])
                /\ \A i \in 1..Len(utx[t].vin) :
                      /\ utx[t].vin[i][1] \in DOMAIN mapWallet
                      /\ utx[utx[t].vin[i][1]].vout[utx[t].vin[i][2] + 1].mine

\* B, unconfirmed and in the pool, is trusted although it spends the
\* unconfirmed payment A that another party made to the wallet
C25_TrustedOnForeignParent ==
    /\ utx = UniverseChain
    /\ {1, 2} \subseteq DOMAIN mapWallet
    /\ DepthOf(1) = 0 /\ DepthOf(2) = 0
    /\ ~IsFromMe(mapWallet, 1)
    /\ ~IsTrusted(W, 1, Env)
    /\ IsTrusted(W, 2, Env)

\* what GetAvailableCredit(fUseCache) returns for the record of t
AvailableCreditOf(t, fUseCache) ==
    IF fUseCache /\ mapWallet[t].fAvailableCreditCached
    THEN mapWallet[t].nAvailableCreditCached
    ELSE SumCredit(W, t, 1, Env)

\* nTotal of GetBalance over the records txs, with the caches or without
RECURSIVE BalanceOver(_, _)
BalanceOver(txs, fUseCache) ==
    IF txs = <<>> THEN 0
    ELSE (IF IsTrusted(W, Head(txs), Env)
          THEN AvailableCreditOf(Head(txs), fUseCache) ELSE 0)
            + BalanceOver(Tail(txs), fUseCache)

BalanceOf(fUseCache) == BalanceOver(SetToSeq(DOMAIN mapWallet), fUseCache)

\* the records whose cached credit is not what a recomputation gives
StaleRecords ==
    {t \in DOMAIN mapWallet :
        /\ mapWallet[t].fAvailableCreditCached
        /\ mapWallet[t].nAvailableCreditCached # SumCredit(W, t, 1, Env)}

HeldKey(i) == build.c[i].rk.nIndex

\* the keys of the change outputs of the committed transactions
CommittedKeys == {build.committed[n].key : n \in 1..Len(build.committed)} \ {-1}

\* caller i has built a transaction and not yet committed or dropped it
HasBuilt(i) == build.c[i].pc \in {"built", "commit_main", "commit"}

(* C27: a key a caller holds reserved is in neither pool and is held by    *)
(* no other caller, until the caller keeps or returns it; the key of the   *)
(* change output of a built transaction is the key its caller holds; and   *)
(* a key kept for a committed change output is handed out to nobody and    *)
(* used by no other committed transaction.                                 *)
C27_ChangeKeyExclusive ==
    build.pc = "callers"
        => /\ \A i \in CallerIds :
                 HeldKey(i) # -1
                    => /\ HeldKey(i) \notin build.k.setInternalKeyPool
                                               \cup build.k.setExternalKeyPool
                       /\ \A j \in CallerIds \ {i} : HeldKey(j) # HeldKey(i)
           /\ \A i \in CallerIds :
                 (HasBuilt(i) /\ build.c[i].change # -1)
                    => build.c[i].change = HeldKey(i)
           /\ \A key \in CommittedKeys :
                 /\ key \notin build.k.setInternalKeyPool \cup build.k.setExternalKeyPool
                 /\ \A i \in CallerIds : HeldKey(i) # key
                 /\ Cardinality({n \in 1..Len(build.committed) :
                                    build.committed[n].key = key}) = 1

\* two callers have each built a transaction with change and hold their two
\* keys at once, after another transaction with change was committed
C27_Witness ==
    /\ build.pc = "callers"
    /\ HasBuilt(1) /\ HasBuilt(2)
    /\ build.c[1].change # -1 /\ build.c[2].change # -1
    /\ CommittedKeys # {}

\* caller i is inside CreateTransaction or CommitTransaction, under the locks
InsideCall(i) == build.c[i].pc \in {"reserve", "loop", "finish", "commit"}

(* C28 as stated, in its consequence: two build-then-commit sequences      *)
(* never both commit a transaction that spends the same outpoint.          *)
C28_NoOutpointCommittedTwice ==
    build.pc = "callers"
        => \A m, n \in 1..Len(build.committed) :
              m # n => build.committed[m].coin # build.committed[n].coin

\* what the locks do guard: one call at a time.  A caller inside
\* CreateTransaction or CommitTransaction holds cs_main and cs_wallet, and
\* no other caller is inside a call
C28_OneCallAtATime ==
    build.pc = "callers"
        => \A i \in CallerIds :
              InsideCall(i)
                 => /\ build.cs_main = i /\ build.cs_wallet = i
                    /\ \A j \in CallerIds \ {i} : ~InsideCall(j)

\* caller 1 has built a transaction and not committed it, and caller 2 is
\* inside CreateTransaction and has selected the same outpoint
C28_BuildBetweenBuildAndCommit ==
    /\ build.pc = "callers"
    /\ build.c[1].pc = "built"
    /\ build.c[2].pc = "finish"
    /\ build.c[1].coin = build.c[2].coin

\* ---- C29
(* C29: every thread enters cs_main before cs_wallet: a thread that        *)
(* enters cs_main without holding it already holds no cs_wallet at that    *)
(* moment (entering cs_main again while holding both is no acquisition).   *)
C29_ChainLockFirst ==
    [][\A i \in LockThreads :
          (/\ build.pc = "locks"
           /\ "cs_main" \notin HeldBy(i)
           /\ "cs_main" \in {build'.th[i].held[n] : n \in 1..Len(build'.th[i].held)})
          => "cs_wallet" \notin HeldBy(i)]_vars

\* InitLoadWallet is inside MarkConflicted under LoadTxRecords, having
\* entered cs_main again while it held cs_wallet twice over, and the other
\* thread waits for a lock it holds
C29_Witness ==
    /\ build.pc = "locks"
    /\ \E i \in LockThreads, j \in LockThreads :
          /\ i # j
          /\ build.th[i].entry = "InitLoadWallet"
          /\ build.th[i].held =
                <<"cs_main", "cs_wallet", "cs_wallet", "cs_main", "cs_wallet">>
          /\ build.th[j].ops # <<>>
          /\ Head(build.th[j].ops).op = "enter"
          /\ Head(build.th[j].ops).cs \in HeldBy(i)

SpendersAfter(o) == EqualRange(mapTxSpends', o)

\* the records a step inserts
InsertedNow == DOMAIN mapWallet' \ DOMAIN mapWallet

C31_EquivalentWithoutMetadata ==
    \E n \in DOMAIN mapWallet, s \in DOMAIN mapWallet :
       /\ n # s
       /\ IsEquivalentTo(s, n)
       /\ mapWallet[s].nOrderPos < mapWallet[n].nOrderPos
       /\ mapWallet[s].mapValue = "user"
       /\ mapWallet[n].mapValue = ""

\* ---- C32
\* the records of the transactions of the block disconnected last
DisconnectedRecords ==
    IF last.op = "BlockDisconnected"
    THEN Range(mapBlockIndex[last.tx].vtx) \cap DOMAIN mapWallet
    ELSE {}

(* C32 as stated: after BlockDisconnected every record of a transaction of *)
(* the block has no block reference and confirmation depth 0.              *)
C32_BlockReferenceCleared ==
    \A t \in DisconnectedRecords :
       /\ hashUnset(mapWallet[t])
       /\ GetDepthInMainChain(mapWallet[t], chainActive, mapBlockIndex) = 0

(* C32: BlockDisconnected leaves every record of a transaction of the     *)
(* block with the block reference and the position it had, and with        *)
(* confirmation depth 0 since the active chain no longer contains the      *)
(* block.                                                                  *)
C32_DisconnectedDepthZero ==
    [][last'.op = "BlockDisconnected" =>
          \A t \in Range(mapBlockIndex[last'.tx].vtx) \cap DOMAIN mapWallet :
             /\ mapWallet'[t].hashBlock = mapWallet[t].hashBlock
             /\ mapWallet'[t].nIndex = mapWallet[t].nIndex
             /\ GetDepthInMainChain(mapWallet'[t], chainActive', mapBlockIndex') = 0]_vars

\* a block with a record of the wallet was disconnected and the record
\* still refers to it
C32_Witness ==
    /\ last.op = "BlockDisconnected"
    /\ ~Contains(chainActive, last.tx)
    /\ \E t \in DisconnectedRecords : mapWallet[t].hashBlock = last.tx

\* ---- C33
\* the step notifies the wallet of t: AddToWalletIfInvolvingMe(t) is among
\* the calls of the handler
ObservedNow(t) ==
    \E i \in 1..Len(last'.log) :
       last'.log[i].ev = "AddToWalletIfInvolvingMe" /\ last'.log[i].tx = t

\* t spends an output of a record that is not abandoned
SpendsLiveRecord(t) ==
    \E o \in Inputs(t) : o[1] \in DOMAIN mapWallet /\ ~isAbandoned(mapWallet[o[1]])

(* C33 as stated: a step that observes an abandoned record again leaves it *)
(* not abandoned, and an abandoned spender of a record that is no longer   *)
(* abandoned stays abandoned in every step that does not observe it.       *)
C33_AbandonedUntilObserved ==
    [][\A t \in DOMAIN mapWallet :
          isAbandoned(mapWallet[t])
          => IF ObservedNow(t) THEN ~isAbandoned(mapWallet'[t])
             ELSE SpendsLiveRecord(t) => isAbandoned(mapWallet'[t])]_vars

(* C33: a step that observes an abandoned record again leaves it not       *)
(* abandoned, and an abandoned record that a step does not observe stays   *)
(* abandoned or is marked conflicted by the step (a block reference with   *)
(* position -1).                                                           *)
C33_AbandonedUntilObservedOrConflicted ==
    [][\A t \in DOMAIN mapWallet :
          isAbandoned(mapWallet[t])
          => IF ObservedNow(t) THEN ~isAbandoned(mapWallet'[t])
             ELSE \/ isAbandoned(mapWallet'[t])
                  \/ /\ ~hashUnset(mapWallet'[t])
                     /\ mapWallet'[t].nIndex = -1
                     /\ last'.op = "BlockConnected"]_vars

\* a notification has observed an abandoned record again, which is no
\* longer abandoned, and a spender of it abandoned with it still is
C33_Witness ==
    /\ last.op = "TransactionAddedToMempool"
    /\ last.tx \in DOMAIN mapWallet
    /\ ~isAbandoned(mapWallet[last.tx])
    /\ \E i \in 1..Len(last.log) :
          /\ last.log[i].ev = "AddToWallet"
          /\ last.log[i].tx = last.tx
          /\ ~last.log[i].fInsertedNew
    /\ \E d \in DOMAIN mapWallet :
          /\ <<last.tx, 0>> \in Inputs(d)
          /\ isAbandoned(mapWallet[d])

\* ---- C34
\* the entries of wtxOrdered before entry i whose time is at most t, the
\* newest of them, and its time (0 if there is none)
ToleratedBefore(i, among, t) ==
    {j \in 1..(i - 1) : j \in among /\ EntrySmartTime(build.txOrdered[j]) <= t}

LatestEntryBefore(i, among) ==
    LET S == ToleratedBefore(i, among, build.txOrdered[i].nTimeReceived + 300)
    IN IF S = {} THEN 0 ELSE EntrySmartTime(build.txOrdered[Max(S)])

TimeRecords ==
    IF build.pc = "time"
    THEN {i \in 1..Len(build.txOrdered) : build.txOrdered[i].pwtx}
    ELSE {}

SmartTimeAsClaimed(i, E) ==
    LET wtx == build.txOrdered[i]
    IN IF wtx.hashUnset \/ ~wtx.inIndex
       THEN wtx.nTimeSmart = wtx.nTimeReceived
       ELSE /\ wtx.nTimeSmart = Max({E, Min({wtx.blocktime, wtx.nTimeReceived})})
            /\ wtx.nTimeSmart >= E
            /\ wtx.nTimeSmart <= Max({E, wtx.nTimeReceived})

CommittedRecords == {t \in DOMAIN mapWallet : mapWallet[t].mapValue = "user"}

\* those of them that are neither conflicted nor abandoned
LiveCommittedRecords ==
    {t \in CommittedRecords :
        /\ GetDepthInMainChain(mapWallet[t], chainActive, mapBlockIndex) >= 0
        /\ ~isAbandoned(mapWallet[t])}

\* the outpoints CreateTransaction has selected: its coins are numbered as
\* AvailableCoins listed them, and the ledger stands still during the call
SelectedOutpoints ==
    IF BuildAtRest THEN {}
    ELSE {WalletOutpoints(W, Env)[id] : id \in build.setCoins}

CommitTracksAndSpends(live) ==
    /\ (last.op = "CommitTransaction" => last.tx \in CommittedRecords)
    /\ \A t \in live : \A o \in Inputs(t) : IsSpent(W, o[1], o[2], Env)

(* C35 as stated: no build after a commit selects an outpoint the          *)
(* committed transaction spends, whatever became of that transaction.      *)
C35_CommittedInputsNeverSelected ==
    /\ CommitTracksAndSpends(LiveCommittedRecords)
    /\ \A t \in CommittedRecords : Inputs(t) \cap SelectedOutpoints = {}

(* C35: a committed transaction is a tracked record; while it is neither   *)
(* conflicted nor abandoned every outpoint it spends is spent by IsSpent,  *)
(* and no build without pre-selected inputs selects one of them.           *)
C35_LiveCommittedInputsNotSelected ==
    /\ CommitTracksAndSpends(LiveCommittedRecords)
    /\ \A t \in LiveCommittedRecords : Inputs(t) \cap SelectedOutpoints = {}

\* a build that selected the output of a committed transaction, the
\* outpoint that transaction spends being its parent's
C35_Witness ==
    /\ build.pc = "finish"
    /\ \E t \in LiveCommittedRecords :
          /\ Inputs(t) # {}
          /\ \E o \in SelectedOutpoints : o[1] = t

(* ---- the change position CreateTransaction returns ---- *)

(* C36: after every successful build, for any requested change position,  *)
(* nChangePosInOut is -1 if and only if the built transaction has no       *)
(* change output, and otherwise it is the index of the change output in    *)
(* the outputs of the transaction.                                         *)
C36_ChangePositionIffChange ==
    BuildSucceeded =>
        IF ChangeOutputs = {} THEN build.nChangePosInOut = -1
        ELSE ChangeOutputs = {build.nChangePosInOut + 1}

(* ---- the outputs of the recipients ---- *)

\* the output of the built transaction that pays recipient i
RecipientOutputs(i) == {j \in 1..Len(build.vout) : build.vout[j].dest = i}

(* C37: after every successful build each recipient that is not flagged    *)
(* subtract-fee-from-amount has one output in the built transaction, of    *)
(* value recipient.nAmount, whatever the loop did to the fee.              *)
C37_RecipientsPaidExactly ==
    BuildSucceeded =>
        \A i \in 1..Len(build.vecSend) :
           ~build.vecSend[i].fSubtractFeeFromAmount =>
               /\ Cardinality(RecipientOutputs(i)) = 1
               /\ \A j \in RecipientOutputs(i) :
                     build.vout[j].nValue = build.vecSend[i].nAmount

(* ---- the inputs a build selects under coin control ---- *)

\* the outpoints of the inputs of the build
ControlledInputs == {UniverseOutpoints[id] : id \in build.setCoins}

\* a build under coin control that has left the loop with its inputs
ControlledBuilt ==
    /\ build.pc = "finish"
    /\ "setLockedCoins" \in DOMAIN build

(* C38: whatever the coin control, pre-selected inputs with other inputs   *)
(* allowed included, no input of a build is an outpoint that IsSpent       *)
(* reports spent, a locked outpoint, or an output of a conflicted record   *)
(* (no record here is an immature coinbase).                               *)
C38_NoSpentLockedConflictedInput ==
    ControlledBuilt =>
        \A o \in ControlledInputs :
           /\ o[1] \in DOMAIN mapWallet
           /\ ~IsSpent(W, o[1], o[2], Env)
           /\ ~IsLockedCoin(build.setLockedCoins, o)
           /\ GetDepthInMainChain(mapWallet[o[1]], chainActive, mapBlockIndex) >= 0

(* ---- the assertions of AbandonTransaction ---- *)

(* C39: no assert of AbandonTransaction fails for a tracked transaction,   *)
(* in any interleaving of abandontransaction with the notifications of the *)
(* memory pool and the chain and with CommitTransaction: every transaction *)
(* the loop visits is a tracked record of depth <= 0 and, when its depth   *)
(* is 0 and it is not abandoned, is not in the memory pool.                *)
C39_AbandonNeverAborts ==
    last.op = "AbandonTransaction" => ~aborted

====
